---- MODULE Spec2Model ----
(***************************************************************************)
(* aws_sdk_polars: the Hive partition codec, the S3Partition value object  *)
(* and partition discovery (aws_sdk_polars/s3/partition.py), the strict    *)
(* schema merge (aws_sdk_polars/schema.py) and the lenient schema merge    *)
(* and harmonization of tables (aws_sdk_polars/utils.py).                  *)
(*                                                                         *)
(* Every operation of the library is a synchronous call.  The state is the *)
(* call in progress: its name (op), its arguments (args) and what it       *)
(* returned or raised (ret).  A string is a sequence of one-character      *)
(* strings, a dict is the sequence of its <<key, value>> items in          *)
(* insertion order, an S3Path is the record (bucket, parts, is_dir) that   *)
(* s3pathlib keeps.                                                        *)
(***************************************************************************)
EXTENDS Integers, Sequences, FiniteSets, TLC

VARIABLES op, args, ret

vars == <<op, args, ret>>

(***************************************************************************)
(* Bounds of the enumerated inputs.                                        *)
(***************************************************************************)
\* most items in a partition key-value mapping
MaxKvs == 2
\* most path segments below the bucket in an enumerated partition URI
MaxDepth == 3
\* most objects a listing returns
MaxObjects == 3

(***************************************************************************)
(* Outcomes: a returned value, or a raised exception.                      *)
(***************************************************************************)
Ok(v) == [err |-> "", val |-> v]

Raise(e) == [err |-> e, val |-> <<>>]

(***************************************************************************)
(* Python str and dict primitives the code uses.                           *)
(***************************************************************************)
\* s.endswith(c)
EndsWith(s, c) == Len(s) > 0 /\ s[Len(s)] = c

\* c in s
Contains(s, c) == \E i \in 1..Len(s) : s[i] = c

\* s.index(c), 1-based
FirstIndex(s, c) ==
  CHOOSE i \in 1..Len(s) : s[i] = c /\ \A j \in 1..(i - 1) : s[j] # c

\* s.rindex(c), 1-based
LastIndex(s, c) ==
  CHOOSE i \in 1..Len(s) : s[i] = c /\ \A j \in (i + 1)..Len(s) : s[j] # c

RECURSIVE PySplit(_, _)
\* s.split(c): every piece, empty ones kept
PySplit(s, c) ==
  IF ~Contains(s, c) THEN <<s>>
  ELSE LET i == FirstIndex(s, c)
       IN <<SubSeq(s, 1, i - 1)>> \o PySplit(SubSeq(s, i + 1, Len(s)), c)

\* a split at the last c: what rsplit(c, 1) would give
PySplit1_last(s, c) ==
  IF ~Contains(s, c) THEN <<s>>
  ELSE LET i == LastIndex(s, c)
       IN <<SubSeq(s, 1, i - 1), SubSeq(s, i + 1, Len(s))>>

\* s.split(c, 1): at most one split, at the first c
PySplit1(s, c) ==
  IF ~Contains(s, c) THEN <<s>>
  ELSE LET i == FirstIndex(s, c)
       IN <<SubSeq(s, 1, i - 1), SubSeq(s, i + 1, Len(s))>>

RECURSIVE PyJoin(_, _)
\* sep.join(pieces)
PyJoin(sep, pieces) ==
  IF pieces = <<>> THEN <<>>
  ELSE IF Len(pieces) = 1 THEN pieces[1]
  ELSE pieces[1] \o sep \o PyJoin(sep, Tail(pieces))

\* k in d
DictHas(d, k) == \E i \in 1..Len(d) : d[i][1] = k

\* d[k] = v: a present key keeps its place, a new key goes last
DictSet(d, k, v) ==
  IF DictHas(d, k)
  THEN [i \in 1..Len(d) |-> IF d[i][1] = k THEN <<k, v>> ELSE d[i]]
  ELSE Append(d, <<k, v>>)

\* code points of the characters in use (str comparison is by code point)
CodePoint ==
  [c \in {"/", "1", "2", "3", ":", "=", "a", "b", "c", "f", "g", "h", "r", "s"} |->
     CASE c = "/" -> 47 [] c = "1" -> 49 [] c = "2" -> 50 [] c = "3" -> 51
       [] c = ":" -> 58 [] c = "=" -> 61 [] c = "a" -> 97 [] c = "b" -> 98
       [] c = "c" -> 99 [] c = "f" -> 102 [] c = "g" -> 103 [] c = "h" -> 104
       [] c = "r" -> 114 [] c = "s" -> 115]

RECURSIVE StrLess(_, _)
\* s < t on str
StrLess(s, t) ==
  IF s = <<>> THEN t # <<>>
  ELSE IF t = <<>> THEN FALSE
  ELSE IF s[1] = t[1] THEN StrLess(Tail(s), Tail(t))
  ELSE CodePoint[s[1]] < CodePoint[t[1]]

RECURSIVE SortedList(_)
\* list.sort() of the strings of a set
SortedList(S) ==
  IF S = {} THEN <<>>
  ELSE LET m == CHOOSE x \in S : \A y \in S \ {x} : StrLess(x, y)
       IN <<m>> \o SortedList(S \ {m})

(***************************************************************************)
(* s3pathlib.S3Path, as partition.py uses it.                              *)
(***************************************************************************)
Scheme == <<"s", "3", ":", "/", "/">>

Slash == <<"/">>

S3Path(bucket, parts, is_dir) ==
  [bucket |-> bucket, parts |-> parts, is_dir |-> is_dir]

\* the non-empty pieces of a key between "/"
split_parts(key) == SelectSeq(PySplit(key, "/"), LAMBDA p : p # <<>>)

\* S3Path.from_s3_uri("s3://bucket/key")
from_s3_uri(uri) ==
  LET rest  == SubSeq(uri, Len(Scheme) + 1, Len(uri))
      bk    == PySplit1(rest, "/")
      key   == IF Len(bk) = 2 THEN bk[2] ELSE <<>>
      parts == split_parts(key)
  IN S3Path(bk[1], parts, parts = <<>> \/ EndsWith(key, "/"))

\* S3Path.key
S3Path_key(p) ==
  IF p.parts = <<>> THEN <<>>
  ELSE PyJoin(Slash, p.parts) \o (IF p.is_dir THEN Slash ELSE <<>>)

\* S3Path.uri
S3Path_uri(p) == Scheme \o p.bucket \o Slash \o S3Path_key(p)

\* S3Path.joinpath(s), also p / s, for a str s
joinpath(p, s) ==
  LET parts == p.parts \o split_parts(s)
  IN S3Path(p.bucket, parts, parts = <<>> \/ EndsWith(s, "/"))

\* S3Path.to_dir()
to_dir(p) == IF p.is_dir THEN p ELSE joinpath(p, Slash)

\* S3Path.parent, of a path with at least one segment below the bucket (the
\* calls below never take the parent of the bucket itself)
parent(p) == S3Path(p.bucket, SubSeq(p.parts, 1, Len(p.parts) - 1), TRUE)

\* whether the parts of other start the parts of p
StartsWithParts(p, other) ==
  /\ Len(other.parts) <= Len(p.parts)
  /\ SubSeq(p.parts, 1, Len(other.parts)) = other.parts

\* relative_to without the test that p lies under other
relative_to_unchecked(p, other) ==
  Ok(SubSeq(p.parts, Len(other.parts) + 1, Len(p.parts)))

\* S3Path.relative_to(other).parts, or ValueError
relative_to(p, other) ==
  IF p.bucket # other.bucket \/ ~StartsWithParts(p, other)
  THEN Raise("ValueError")
  ELSE Ok(SubSeq(p.parts, Len(other.parts) + 1, Len(p.parts)))

(***************************************************************************)
(* The codec.                                                              *)
(***************************************************************************)
\* part.split("=", 1) cutting at the last "=" instead of the first
split_key_value_at_last(part) == PySplit1_last(part, "=")

\* part.split("=", 1)
split_key_value(part) == PySplit1(part, "=")

RECURSIVE decode_loop_newest_first(_, _)
\* decode_loop putting each new item in front of the older ones
decode_loop_newest_first(parts, data) ==
  IF parts = <<>> THEN Ok(data)
  ELSE LET kv == split_key_value(parts[1])
       IN IF Len(kv) # 2 THEN Raise("ValueError")
          ELSE decode_loop_newest_first(Tail(parts), <<<<kv[1], kv[2]>>>> \o data)

RECURSIVE decode_loop(_, _)
\* the loop of decode_hive_partition over the parts left, data so far
decode_loop(parts, data) ==
  IF parts = <<>> THEN Ok(data)
  ELSE LET kv == split_key_value(parts[1])
       IN IF Len(kv) # 2 THEN Raise("ValueError")
          ELSE decode_loop(Tail(parts), DictSet(data, kv[1], kv[2]))

decode_hive_partition(s3dir_root, s3dir_partition) ==
  LET rel == relative_to(s3dir_partition, s3dir_root)
  IN IF rel.err # "" THEN rel ELSE decode_loop(rel.val, <<>>)

\* f"{k}={v}" for each item
kv_segments(kvs) == [i \in 1..Len(kvs) |-> kvs[i][1] \o <<"=">> \o kvs[i][2]]

\* the segments in the sorted order of their text
sorted_segments(kvs) == SortedList({kv_segments(kvs)[i] : i \in 1..Len(kvs)})

\* encode_hive_partition over sorted(kvs.items())
encode_hive_partition_sorted(kvs) == PyJoin(Slash, sorted_segments(kvs))

encode_hive_partition(kvs) == PyJoin(Slash, kv_segments(kvs))

\* build_hive_partition_dir without the final to_dir()
build_hive_partition_dir_no_to_dir(s3dir_root, kvs) ==
  joinpath(s3dir_root, encode_hive_partition(kvs))

build_hive_partition_dir(s3dir_root, kvs) ==
  to_dir(joinpath(s3dir_root, encode_hive_partition(kvs)))

(***************************************************************************)
(* S3Partition.                                                            *)
(***************************************************************************)
\* the dataclass constructor with no __post_init__
S3Partition_as_given(root_uri, data) == [root_uri |-> root_uri, data |-> data]

\* the dataclass constructor followed by __post_init__
S3Partition(root_uri, data) ==
  [root_uri |-> IF EndsWith(root_uri, "/") THEN root_uri ELSE root_uri \o Slash,
   data |-> data]

\* S3Partition.s3dir_root
S3Partition_s3dir_root(self) == from_s3_uri(self.root_uri)

\* S3Partition.s3dir_part
S3Partition_s3dir_part(self) ==
  build_hive_partition_dir(S3Partition_s3dir_root(self), self.data)

\* S3Partition.part_uri
S3Partition_part_uri(self) == S3Path_uri(S3Partition_s3dir_part(self))

\* S3Partition.from_uri
from_uri(s3uri_part, s3uri_root) ==
  LET s3dir_part == to_dir(from_s3_uri(s3uri_part))
      s3dir_root == to_dir(from_s3_uri(s3uri_root))
      data       == decode_hive_partition(s3dir_root, s3dir_part)
  IN IF data.err # "" THEN data ELSE Ok(S3Partition(s3uri_root, data.val))

RECURSIVE parents_one_short(_, _)
\* n - 1 times .parent: the loop one step short
parents_one_short(p, n) == IF n <= 1 THEN p ELSE parents_one_short(parent(p), n - 1)

RECURSIVE parents(_, _)
\* the loop of from_part_uri: n times .parent
parents(p, n) == IF n = 0 THEN p ELSE parents(parent(p), n - 1)

\* S3Partition.from_part_uri
from_part_uri(part_uri, n_levels) ==
  LET s3dir_part == to_dir(from_s3_uri(part_uri))
      s3dir_root == parents(s3dir_part, n_levels)
  IN from_uri(part_uri, S3Path_uri(s3dir_root))

(***************************************************************************)
(* Partition discovery.                                                    *)
(***************************************************************************)
\* the test without its second half: a folder is kept only for its "="
is_partition_uri_no_root(s3_uri, s3dir_root) ==
  LET pieces == PySplit(s3_uri, "/")
  IN Contains(pieces[Len(pieces) - 1], "=")

\* the test that keeps a folder: "=" in its last segment, or as long as the root
is_partition_uri(s3_uri, s3dir_root) ==
  LET pieces == PySplit(s3_uri, "/")
  IN \/ Contains(pieces[Len(pieces) - 1], "=")
     \/ Len(s3_uri) = Len(S3Path_uri(s3dir_root))

RECURSIVE partition_loop_skip_undecodable(_, _, _)
partition_loop_skip_undecodable(s3dir_root, s3_uri_list, partition_list) ==
  IF s3_uri_list = <<>> THEN Ok(partition_list)
  ELSE LET data == decode_hive_partition(s3dir_root, from_s3_uri(s3_uri_list[1]))
       IN partition_loop_skip_undecodable(s3dir_root, Tail(s3_uri_list),
            IF data.err # "" THEN partition_list
            ELSE Append(partition_list, S3Partition(S3Path_uri(s3dir_root), data.val)))

RECURSIVE partition_loop(_, _, _)
\* the loop that decodes each kept folder, partition_list so far
partition_loop(s3dir_root, s3_uri_list, partition_list) ==
  IF s3_uri_list = <<>> THEN Ok(partition_list)
  ELSE LET data == decode_hive_partition(s3dir_root, from_s3_uri(s3_uri_list[1]))
       IN IF data.err # "" THEN data
          ELSE partition_loop(s3dir_root, Tail(s3_uri_list),
                 Append(partition_list, S3Partition(S3Path_uri(s3dir_root), data.val)))

\* list_partitions, given what s3dir_root.iter_objects() yields
list_partitions(s3dir_root, objects) ==
  LET s3_uri_set  == {S3Path_uri(parent(o)) : o \in objects}
      kept        == {u \in s3_uri_set : is_partition_uri(u, s3dir_root)}
  IN partition_loop(s3dir_root, SortedList(kept), <<>>)

(***************************************************************************)
(* The inputs the calls are made with.                                     *)
(***************************************************************************)
\* sequences of at most n elements of S
SeqsUpTo(S, n) == UNION {[1..k -> S] : k \in 0..n}

\* partition keys: two plain ones, the empty one, one with "=", one with "/"
KeyStrs == {<<"a">>, <<"b">>, <<>>, <<"a", "=">>, <<"/", "a">>}

\* partition values: plain, empty, with "=", ending in "/"
ValStrs == {<<"1">>, <<>>, <<"1", "=">>, <<"1", "/">>}

\* dicts of at most MaxKvs items: the keys of a dict are distinct
KvsSet ==
  {d \in SeqsUpTo(KeyStrs \X ValStrs, MaxKvs) :
     \A i, j \in 1..Len(d) : d[i][1] = d[j][1] => i = j}

\* path segments: a plain folder, key=value ones, one with two "=", the empty one
Segs == {<<"r">>, <<"a", "=", "1">>, <<"a", "=", "2">>, <<"b", "=", "1">>,
         <<"a", "=", "1", "=", "2">>, <<>>}

Uri(bucket, key) == Scheme \o bucket \o Slash \o key

\* keys of at most n segments, each both as written and with a final "/"
KeysUpTo(n) ==
  UNION {{PyJoin(Slash, ps), PyJoin(Slash, ps) \o Slash} : ps \in SeqsUpTo(Segs, n)}

\* URIs of partition directories, all in bucket b
PartUris == {Uri(<<"b">>, k) : k \in KeysUpTo(MaxDepth)}

\* URIs of root directories: with and without the final "/", in two buckets,
\* the bucket itself, a root that is itself key=value, one with "//"
RootUris ==
  {Uri(<<"b">>, <<>>), Uri(<<"b">>, <<"r", "/">>), Uri(<<"b">>, <<"r">>),
   Uri(<<"c">>, <<"r", "/">>), Uri(<<"b">>, <<"r", "/", "a", "=", "1", "/">>),
   Uri(<<"b">>, <<"a", "=", "1">>), Uri(<<"b">>, <<"/", "r", "/">>)}

\* root directories that are listed: a folder, the bucket, a key=value folder
ListRoots ==
  {from_s3_uri(Uri(<<"b">>, <<"r", "/">>)), from_s3_uri(Uri(<<"b">>, <<>>)),
   from_s3_uri(Uri(<<"b">>, <<"a", "=", "1", "/">>))}

\* folder names below a listed root: a housekeeping folder and key=value ones
DirSegs == {<<"h">>, <<"a", "=", "1">>, <<"a", "=", "2">>}

\* the folders below the root that hold objects, up to two levels down
ListDirs == {<<>>} \cup {<<s>> : s \in DirSegs} \cup (DirSegs \X DirSegs)

\* the objects a bucket may hold under root: f in every folder, g beside it in two
ObjectPool(root) ==
  {S3Path(root.bucket, root.parts \o d \o <<<<"f">>>>, FALSE) : d \in ListDirs}
    \cup {S3Path(root.bucket, root.parts \o d \o <<<<"g">>>>, FALSE) :
            d \in {<<>>, <<<<"a", "=", "1">>>>}}

\* the listing of test_list_partitions, year and month written a and b:
\* a=1/b=1/f, a=1/b=2/f, a=1/b=3/f, a=2/b=1/f, a=2/b=2/f, a=2/b=3/f
SixObjects(root) ==
  {S3Path(root.bucket,
          root.parts \o <<(<<"a", "=", y>>), (<<"b", "=", m>>), (<<"f">>)>>, FALSE) :
     y \in {"1", "2"}, m \in {"1", "2", "3"}}

\* what iter_objects may yield: at most MaxObjects objects under root, or the six
Listings(root) ==
  {S \in SUBSET ObjectPool(root) : Cardinality(S) <= MaxObjects} \cup {SixObjects(root)}

(***************************************************************************)
(* The calls.                                                              *)
(***************************************************************************)
Init == op = "idle" /\ args = <<>> /\ ret = Ok(<<>>)

CallEncode ==
  /\ op = "idle"
  /\ \E kvs \in KvsSet :
       /\ op' = "encode_hive_partition"
       /\ args' = [kvs |-> kvs]
       /\ ret' = Ok(encode_hive_partition(kvs))

CallDecode ==
  /\ op = "idle"
  /\ \E r \in RootUris, p \in PartUris :
       /\ op' = "decode_hive_partition"
       /\ args' = [s3dir_root |-> from_s3_uri(r), s3dir_partition |-> from_s3_uri(p)]
       /\ ret' = decode_hive_partition(from_s3_uri(r), from_s3_uri(p))

CallBuild ==
  /\ op = "idle"
  /\ \E r \in RootUris, kvs \in KvsSet :
       /\ op' = "build_hive_partition_dir"
       /\ args' = [s3dir_root |-> from_s3_uri(r), kvs |-> kvs]
       /\ ret' = Ok(build_hive_partition_dir(from_s3_uri(r), kvs))

\* decode_hive_partition on the directory build_hive_partition_dir just returned
CallDecodeBuilt ==
  /\ op = "build_hive_partition_dir"
  /\ op' = "decode_built"
  /\ args' = [s3dir_root |-> args.s3dir_root, kvs |-> args.kvs, s3dir_partition |-> ret.val]
  /\ ret' = decode_hive_partition(args.s3dir_root, ret.val)

CallS3Partition ==
  /\ op = "idle"
  /\ \E r \in RootUris, kvs \in KvsSet :
       /\ op' = "S3Partition"
       /\ args' = [root_uri |-> r, data |-> kvs]
       /\ ret' = Ok(S3Partition(r, kvs))

CallFromUri ==
  /\ op = "idle"
  /\ \E p \in PartUris, r \in RootUris :
       /\ op' = "from_uri"
       /\ args' = [s3uri_part |-> p, s3uri_root |-> r]
       /\ ret' = from_uri(p, r)

CallFromPartUri ==
  /\ op = "idle"
  /\ \E p \in PartUris, n \in 0..MaxDepth :
       /\ n <= Len(from_s3_uri(p).parts)
       /\ op' = "from_part_uri"
       /\ args' = [part_uri |-> p, n_levels |-> n]
       /\ ret' = from_part_uri(p, n)

CallListPartitions ==
  /\ op = "idle"
  /\ \E r \in ListRoots :
       \E objects \in Listings(r) :
         /\ op' = "list_partitions"
         /\ args' = [s3dir_root |-> r, objects |-> objects]
         /\ ret' = list_partitions(r, objects)

\* the call returns to its caller
Return ==
  /\ op # "idle"
  /\ op' = "idle" /\ args' = <<>> /\ ret' = Ok(<<>>)

Next ==
  \/ CallEncode
  \/ CallDecode
  \/ CallBuild
  \/ CallDecodeBuilt
  \/ CallS3Partition
  \/ CallFromUri
  \/ CallFromPartUri
  \/ CallListPartitions
  \/ Return

Spec == Init /\ [][Next]_vars

(***************************************************************************)
(* Vocabulary of the properties.                                           *)
(***************************************************************************)
\* no "=" and no "/" in s
PlainStr(s) == ~Contains(s, "=") /\ ~Contains(s, "/")

\* keys non-empty, and neither keys nor values hold "=" or "/"
ValidKvs(kvs) ==
  \A i \in 1..Len(kvs) :
    kvs[i][1] # <<>> /\ PlainStr(kvs[i][1]) /\ PlainStr(kvs[i][2])

(***************************************************************************)
(* C1.  Round trip: for a mapping whose keys are distinct, non-empty and   *)
(* free of "=" and "/", and whose values are free of "=" and "/", decoding *)
(* the directory built from root and the mapping returns the mapping, same *)
(* keys in the same order.                                                 *)
(***************************************************************************)
C1_RoundTrip ==
  (op = "decode_built" /\ ValidKvs(args.kvs)) => ret = Ok(args.kvs)

\* a two-item mapping whose keys are not in sorted order has made the trip
C1_Witness ==
  /\ op = "decode_built"
  /\ ValidKvs(args.kvs)
  /\ Len(args.kvs) = 2
  /\ args.kvs[1] = <<(<<"b">>), (<<"1">>)>>
  /\ args.s3dir_root.parts # <<>>
  /\ ret.err = ""

(***************************************************************************)
(* C2.  encode_hive_partition returns the key=value segments of the        *)
(* mapping in the mapping's own order, one "/" between neighbours and none *)
(* before the first or after the last; the empty mapping gives "".         *)
(* Stated by position: item i occupies the Len(k)+1+Len(v) characters that *)
(* follow the earlier items and their separators.                          *)
(***************************************************************************)
ItemLen(kvs, i) == Len(kvs[i][1]) + 1 + Len(kvs[i][2])

RECURSIVE ItemStart(_, _)
\* characters of the result before item i
ItemStart(kvs, i) ==
  IF i = 1 THEN 0 ELSE ItemStart(kvs, i - 1) + ItemLen(kvs, i - 1) + 1

C2_EncodeInOrder ==
  op = "encode_hive_partition" =>
    LET kvs == args.kvs
        e   == ret.val
        n   == Len(kvs)
    IN /\ ret.err = ""
       /\ n = 0 => e = <<>>
       /\ n > 0 => Len(e) = ItemStart(kvs, n) + ItemLen(kvs, n)
       /\ \A i \in 1..n :
            /\ SubSeq(e, ItemStart(kvs, i) + 1, ItemStart(kvs, i) + ItemLen(kvs, i))
                 = kvs[i][1] \o <<"=">> \o kvs[i][2]
            /\ i < n => e[ItemStart(kvs, i) + ItemLen(kvs, i) + 1] = "/"

\* two items given with the later key of the alphabet first
C2_Witness ==
  /\ op = "encode_hive_partition"
  /\ args.kvs = <<(<<(<<"b">>), (<<"1">>)>>), (<<(<<"a">>), (<<"1">>)>>)>>
  /\ ret.val = <<"b", "=", "1", "/", "a", "=", "1">>

(***************************************************************************)
(* C3.  decode_hive_partition raises when the partition is neither the     *)
(* root nor below it (an ancestor of the root, another bucket, a sibling), *)
(* and returns the empty mapping when the partition is the root.  "Below"  *)
(* is read off the URIs: the root's directory URI starts the partition's.  *)
(***************************************************************************)
\* s starts t
IsStrPrefix(s, t) == Len(s) <= Len(t) /\ SubSeq(t, 1, Len(s)) = s

\* the URI of p as a directory
DirUri(p) == S3Path_uri(to_dir(p))

C3_DecodeOutsideRoot ==
  op = "decode_hive_partition" =>
    LET r == DirUri(args.s3dir_root)
        p == DirUri(args.s3dir_partition)
    IN /\ ~IsStrPrefix(r, p) => (ret.err = "ValueError" /\ ret.val = <<>>)
       /\ r = p => ret = Ok(<<>>)

\* the partition is a proper ancestor of the root, and the call raised
C3_Witness ==
  /\ op = "decode_hive_partition"
  /\ DirUri(args.s3dir_partition) # DirUri(args.s3dir_root)
  /\ IsStrPrefix(DirUri(args.s3dir_partition), DirUri(args.s3dir_root))
  /\ ret.err = "ValueError"

(***************************************************************************)
(* C4.  Below the root, every segment is cut at its first "=": the key is  *)
(* the text before it, the value all the text after it.  A segment with no *)
(* "=" makes the call raise, with no mapping returned.  When a key occurs  *)
(* in several segments the mapping holds the value of the last of them.    *)
(***************************************************************************)
\* seg is k, "=", then anything, and k holds no "="
HasKey(seg, k) ==
  /\ Len(seg) > Len(k)
  /\ SubSeq(seg, 1, Len(k)) = k
  /\ seg[Len(k) + 1] = "="
  /\ ~Contains(k, "=")

\* data is what the segments segs say, each cut at its first "="
Decodes(data, segs) ==
  /\ \A i, j \in 1..Len(data) : data[i][1] = data[j][1] => i = j
  /\ \A i \in 1..Len(segs) : \E j \in 1..Len(data) : HasKey(segs[i], data[j][1])
  /\ \A j \in 1..Len(data) :
       \E i \in 1..Len(segs) :
         /\ segs[i] = data[j][1] \o <<"=">> \o data[j][2]
         /\ ~Contains(data[j][1], "=")
         /\ \A l \in (i + 1)..Len(segs) : ~HasKey(segs[l], data[j][1])

\* the segments of p below root
SegsBelow(root, p) == SubSeq(p.parts, Len(root.parts) + 1, Len(p.parts))

C4_DecodeSegments ==
  (op = "decode_hive_partition"
     /\ IsStrPrefix(DirUri(args.s3dir_root), DirUri(args.s3dir_partition))) =>
    LET segs == SegsBelow(args.s3dir_root, args.s3dir_partition)
    IN IF \E i \in 1..Len(segs) : ~Contains(segs[i], "=")
       THEN ret.err = "ValueError" /\ ret.val = <<>>
       ELSE ret.err = "" /\ Decodes(ret.val, segs)

\* a segment with two "=" was decoded: the value keeps the second one
C4_Witness ==
  /\ op = "decode_hive_partition"
  /\ ret.err = ""
  /\ \E i \in 1..Len(ret.val) : ret.val[i] = <<(<<"a">>), (<<"1", "=", "2">>)>>

\* a segment without "=" came after a good one, and the call raised
C4_WitnessRaise ==
  /\ op = "decode_hive_partition"
  /\ LET segs == SegsBelow(args.s3dir_root, args.s3dir_partition)
     IN /\ IsStrPrefix(DirUri(args.s3dir_root), DirUri(args.s3dir_partition))
        /\ Len(segs) = 2 /\ Contains(segs[1], "=") /\ ~Contains(segs[2], "=")
  /\ ret.err = "ValueError"

(***************************************************************************)
(* C5.  Every S3Partition that the constructor, from_uri, from_part_uri or *)
(* list_partitions hands out has a root_uri ending in "/": a root given    *)
(* with the final "/" is stored as given, one given without it is stored   *)
(* with "/" added.                                                         *)
(***************************************************************************)
\* the S3Partition values the finished call handed out
Returned ==
  IF ret.err # "" THEN {}
  ELSE IF op \in {"S3Partition", "from_uri", "from_part_uri"} THEN {ret.val}
  ELSE IF op = "list_partitions" THEN {ret.val[i] : i \in 1..Len(ret.val)}
  ELSE {}

\* the root string the caller gave, for the calls that take one
GivenRoot ==
  IF op = "S3Partition" THEN args.root_uri ELSE args.s3uri_root

C5_RootEndsWithSlash ==
  /\ \A part \in Returned : part.root_uri[Len(part.root_uri)] = "/"
  /\ (op \in {"S3Partition", "from_uri"} /\ ret.err = "") =>
       ret.val.root_uri =
         IF GivenRoot[Len(GivenRoot)] = "/" THEN GivenRoot ELSE GivenRoot \o <<"/">>

\* from_uri was given a root without the final "/" and returned a partition
C5_Witness ==
  /\ op = "from_uri"
  /\ ret.err = ""
  /\ args.s3uri_root[Len(args.s3uri_root)] # "/"
  /\ ret.val.data # <<>>

(***************************************************************************)
(* C6.  part_uri is root_uri, then the encoded data, then one "/"; with    *)
(* empty data it is root_uri itself.  As first stated, for every           *)
(* S3Partition: C6_PartUriAnyPartition.  That fails when root_uri holds an *)
(* empty path segment ("//") or a key or value holds "/", because part_uri *)
(* is rebuilt through S3Path, which keeps only the non-empty segments.     *)
(* It holds for the other partitions: C6_PartUri.                          *)
(***************************************************************************)
\* root_uri, the encoded data and the closing "/"
Concatenated(part) ==
  part.root_uri \o encode_hive_partition(part.data)
    \o (IF part.data = <<>> THEN <<>> ELSE <<"/">>)

C6_PartUriAnyPartition ==
  \A part \in Returned : S3Partition_part_uri(part) = Concatenated(part)

\* no "//" after the scheme: no empty path segment
NoEmptySegment(uri) ==
  \A i \in (Len(Scheme) + 1)..(Len(uri) - 1) : ~(uri[i] = "/" /\ uri[i + 1] = "/")

\* no key and no value holds "/"
NoSlashInData(data) ==
  \A i \in 1..Len(data) : ~Contains(data[i][1], "/") /\ ~Contains(data[i][2], "/")

C6_PartUri ==
  \A part \in Returned :
    (NoEmptySegment(part.root_uri) /\ NoSlashInData(part.data)) =>
      S3Partition_part_uri(part) = Concatenated(part)

\* a constructed partition of two items under a root given without "/"
C6_Witness ==
  /\ op = "S3Partition"
  /\ args.root_uri = Uri(<<"b">>, <<"r">>)
  /\ Len(ret.val.data) = 2
  /\ NoSlashInData(ret.val.data)
  /\ S3Partition_part_uri(ret.val) = Concatenated(ret.val)

\* a partition with empty data: part_uri is root_uri
C6_WitnessEmpty ==
  /\ op = "from_uri"
  /\ ret.err = ""
  /\ ret.val.data = <<>>
  /\ NoEmptySegment(ret.val.root_uri)
  /\ S3Partition_part_uri(ret.val) = ret.val.root_uri

(***************************************************************************)
(* C7.  from_part_uri(part_uri, n_levels) is from_uri(part_uri, R) with R  *)
(* the directory n_levels segments above part_uri.  With n_levels = 0 the  *)
(* root is the path itself and data is empty.  When the last n_levels      *)
(* segments are key=value with distinct keys, data has n_levels items and  *)
(* part_uri is the given path as a directory.                              *)
(***************************************************************************)
\* the URI of the directory n segments above p
Above(p, n) == S3Path_uri(S3Path(p.bucket, SubSeq(p.parts, 1, Len(p.parts) - n), TRUE))

\* the text of seg before its first "="
KeyOf(seg) == SubSeq(seg, 1, FirstIndex(seg, "=") - 1)

\* the last n segments of p are key=value and their keys differ
LastAreDistinctKeyValues(p, n) ==
  LET m == Len(p.parts)
  IN /\ \A i \in (m - n + 1)..m : Contains(p.parts[i], "=")
     /\ \A i, j \in (m - n + 1)..m :
          KeyOf(p.parts[i]) = KeyOf(p.parts[j]) => i = j

C7_FromPartUri ==
  op = "from_part_uri" =>
    LET p == from_s3_uri(args.part_uri)
        n == args.n_levels
    IN /\ ret = from_uri(args.part_uri, Above(p, n))
       /\ n = 0 => ret = Ok([root_uri |-> DirUri(p), data |-> <<>>])
       /\ LastAreDistinctKeyValues(p, n) =>
            /\ ret.err = ""
            /\ Len(ret.val.data) = n
            /\ ret.val.root_uri = Above(p, n)
            /\ S3Partition_part_uri(ret.val) = DirUri(p)

\* two levels up from r/a=1/b=1
C7_Witness ==
  /\ op = "from_part_uri"
  /\ args.n_levels = 2
  /\ from_s3_uri(args.part_uri).parts = <<(<<"r">>), (<<"a", "=", "1">>), (<<"b", "=", "1">>)>>
  /\ ret.err = ""
  /\ ret.val.data = <<(<<(<<"a">>), (<<"1">>)>>), (<<(<<"b">>), (<<"1">>)>>)>>
  /\ ret.val.root_uri = Uri(<<"b">>, <<"r", "/">>)

(***************************************************************************)
(* C8.  When list_partitions succeeds it returns one partition for each    *)
(* distinct folder that directly holds a listed object and that is the     *)
(* root or has "=" in its last segment, and nothing else: a folder whose   *)
(* last segment has no "=" gives none, many objects of one folder give     *)
(* one.  A partition answers to a folder when its root is the listed root  *)
(* and its data is what the folder's segments below the root say.          *)
(***************************************************************************)
\* the URI of the folder holding the object: the object's URI up to its last "/"
FolderOf(o) ==
  LET u == S3Path_uri(o) IN SubSeq(u, 1, LastIndex(u, "/"))

\* the text between the last two "/" of a folder URI
LastSegment(d) ==
  LET inner == SubSeq(d, 1, Len(d) - 1)
  IN SubSeq(inner, LastIndex(inner, "/") + 1, Len(inner))

\* the folders of the listing that count as partitions
PartitionFolders ==
  {d \in {FolderOf(o) : o \in args.objects} :
     d = S3Path_uri(args.s3dir_root) \/ Contains(LastSegment(d), "=")}

\* partition part answers to folder d
AnswersTo(part, d) ==
  /\ part.root_uri = S3Path_uri(args.s3dir_root)
  /\ Decodes(part.data, SegsBelow(args.s3dir_root, from_s3_uri(d)))

C8_OnePartitionPerFolder ==
  (op = "list_partitions" /\ ret.err = "") =>
    /\ Len(ret.val) = Cardinality(PartitionFolders)
    /\ \A d \in PartitionFolders : \E i \in 1..Len(ret.val) : AnswersTo(ret.val[i], d)
    /\ \A i \in 1..Len(ret.val) : \E d \in PartitionFolders : AnswersTo(ret.val[i], d)

\* three objects, two of them directly in the root and one in a folder
\* without "=": one partition, the root's
C8_Witness ==
  /\ op = "list_partitions"
  /\ ret.err = ""
  /\ Cardinality(args.objects) = 3
  /\ Cardinality({FolderOf(o) : o \in args.objects}) = 2
  /\ \E o \in args.objects : FolderOf(o) = S3Path_uri(args.s3dir_root)
  /\ \E o \in args.objects : ~Contains(LastSegment(FolderOf(o)), "=")
  /\ Len(ret.val) = 1

(***************************************************************************)
(* C9.  The partitions come back in ascending order of their part_uri.     *)
(* The code sorts the folders it found; a folder that repeats a key        *)
(* (a=2/a=1/) decodes to the last value only, so its partition's part_uri  *)
(* is another folder's and the order of the part_uri is lost.              *)
(***************************************************************************)
C9_AscendingPartUri ==
  (op = "list_partitions" /\ ret.err = "") =>
    \A i, j \in 1..Len(ret.val) :
      i < j => ~StrLess(S3Partition_part_uri(ret.val[j]), S3Partition_part_uri(ret.val[i]))

\* the six-object listing alone: six partitions, a=1 before a=2 and, within
\* each, b=1, b=2, b=3
C9_SixObjectsInOrder ==
  (op = "list_partitions" /\ args.objects = SixObjects(args.s3dir_root)) =>
    /\ ret.err = ""
    /\ [i \in 1..Len(ret.val) |-> ret.val[i].data] =
         << <<(<<(<<"a">>), (<<"1">>)>>), (<<(<<"b">>), (<<"1">>)>>)>>,
            <<(<<(<<"a">>), (<<"1">>)>>), (<<(<<"b">>), (<<"2">>)>>)>>,
            <<(<<(<<"a">>), (<<"1">>)>>), (<<(<<"b">>), (<<"3">>)>>)>>,
            <<(<<(<<"a">>), (<<"2">>)>>), (<<(<<"b">>), (<<"1">>)>>)>>,
            <<(<<(<<"a">>), (<<"2">>)>>), (<<(<<"b">>), (<<"2">>)>>)>>,
            <<(<<(<<"a">>), (<<"2">>)>>), (<<(<<"b">>), (<<"3">>)>>)>> >>

(***************************************************************************)
(* C10.  No two partitions of one listing have the same part_uri.  Two     *)
(* folders that differ only in a repeated key (a=1/a=2/ and a=2/) decode   *)
(* to the same data, hence to the same part_uri.                           *)
(***************************************************************************)
C10_DistinctPartUri ==
  (op = "list_partitions" /\ ret.err = "") =>
    \A i, j \in 1..Len(ret.val) :
      S3Partition_part_uri(ret.val[i]) = S3Partition_part_uri(ret.val[j]) => i = j

(***************************************************************************)
(* polars data types, as schema.py and utils.py use them.  A data type is  *)
(* a tag with, for a Struct, its fields in order: a sequence of            *)
(* <<name, dtype>>.  Two data types are equal when tag and fields are:     *)
(* Struct equality compares the field lists, names, types and order.       *)
(* A schema (pl.Schema, or the dict built while merging) is a Python dict  *)
(* from column name to data type.                                          *)
(***************************************************************************)
Int64   == [tag |-> "Int64",   fields |-> <<>>]
Float64 == [tag |-> "Float64", fields |-> <<>>]
String  == [tag |-> "String",  fields |-> <<>>]

\* pl.Struct(mapping): the fields in the mapping's order
Struct(mapping) == [tag |-> "Struct", fields |-> mapping]

\* isinstance(dtype, pl.Struct)
IsStruct(dtype) == dtype.tag = "Struct"

\* d[k] of a dict that has k
DictGet(d, k) == d[CHOOSE i \in 1..Len(d) : d[i][1] = k][2]

\* the keys of a dict, in its order
DictKeys(d) == [i \in 1..Len(d) |-> d[i][1]]

\* raise TypeError(...) naming the column and the two types, in message order
SchemaConflict(col_name, first, second) ==
  [err |-> "TypeError",
   val |-> [col_name |-> col_name, first |-> first, second |-> second]]

(***************************************************************************)
(* merge_schemas of schema.py                                              *)
(***************************************************************************)
new_column_first(merged_schema, col_name, source_dtype) ==
  <<<<col_name, source_dtype>>>> \o merged_schema

\* merged_schema[col_name] = source_dtype for a name not yet merged
new_column(merged_schema, col_name, source_dtype) ==
  DictSet(merged_schema, col_name, source_dtype)

dtypes_differ_but_numeric(target_dtype, source_dtype) ==
  /\ target_dtype # source_dtype
  /\ ~({target_dtype.tag, source_dtype.tag} \subseteq {"Int64", "Float64"})

\* a comparison that lets a recorded String pass whatever comes in
dtypes_differ_unless_recorded_string(target_dtype, source_dtype) ==
  target_dtype # source_dtype /\ target_dtype # String

\* target_dtype != source_dtype
dtypes_differ(target_dtype, source_dtype) == target_dtype # source_dtype

struct_schemas_source_only(source_dtype, target_dtype) ==
  <<source_dtype.fields>>

\* the two dicts handed to the recursive call: the incoming column's fields
\* first, the already merged column's fields second
struct_schemas(source_dtype, target_dtype) ==
  <<source_dtype.fields, target_dtype.fields>>

RECURSIVE merge_schemas(_, _), merge_schemas_loop(_, _), merge_schema_items(_, _)

\* the inner loop: the items of one schema, merged_schema so far
merge_schema_items(items, merged_schema) ==
  IF items = <<>> THEN Ok(merged_schema)
  ELSE
    LET col_name     == items[1][1]
        source_dtype == items[1][2]
    IN IF DictHas(merged_schema, col_name)
       THEN LET target_dtype == DictGet(merged_schema, col_name)
            IN IF IsStruct(source_dtype) /\ IsStruct(target_dtype)
               THEN LET merged_struct ==
                          merge_schemas(struct_schemas(source_dtype, target_dtype), TRUE)
                    IN IF merged_struct.err # "" THEN merged_struct
                       ELSE merge_schema_items(Tail(items),
                              DictSet(merged_schema, col_name, merged_struct.val))
               ELSE IF dtypes_differ(target_dtype, source_dtype)
               THEN SchemaConflict(col_name, target_dtype, source_dtype)
               ELSE merge_schema_items(Tail(items), merged_schema)
       ELSE merge_schema_items(Tail(items),
              new_column(merged_schema, col_name, source_dtype))

\* the outer loop: the schemas in list order
merge_schemas_loop(schemas, merged_schema) ==
  IF schemas = <<>> THEN Ok(merged_schema)
  ELSE LET one == merge_schema_items(schemas[1], merged_schema)
       IN IF one.err # "" THEN one
          ELSE merge_schemas_loop(Tail(schemas), one.val)

merge_schemas_reversed(schemas, is_struct) ==
  LET merged   == merge_schemas_loop(schemas, <<>>)
      reversed == [i \in 1..Len(merged.val) |-> merged.val[Len(merged.val) + 1 - i]]
  IN IF merged.err # "" THEN merged
     ELSE IF is_struct THEN Ok(Struct(reversed)) ELSE Ok(reversed)

\* merge_schemas(schemas, _is_struct): a pl.Schema, or a pl.Struct when
\* called for the fields of a Struct column
merge_schemas(schemas, is_struct) ==
  LET merged == merge_schemas_loop(schemas, <<>>)
  IN IF merged.err # "" THEN merged
     ELSE IF is_struct THEN Ok(Struct(merged.val)) ELSE merged

(***************************************************************************)
(* The schemas merge_schemas is called with.                               *)
(***************************************************************************)
MaxSchemas == 3

\* the types a column of the Struct-free schemas takes
ColumnTypes(col_name) == IF col_name = "b" THEN {Int64, Float64} ELSE {Int64}

\* schemas without Struct columns: none, one or two of the columns a, b, c
\* in either order, the three in order, and the second schema of the
\* conflict test
PrimSchemas ==
  {<<>>}
  \cup UNION {{<<<<n, t>>>> : t \in ColumnTypes(n)} : n \in {"a", "b", "c"}}
  \cup UNION {{<<<<p[1], t1>>, <<p[2], t2>>>> :
                 t1 \in ColumnTypes(p[1]), t2 \in ColumnTypes(p[2])} :
               p \in {q \in {"a", "b", "c"} \X {"a", "b", "c"} : q[1] # q[2]}}
  \cup {<<<<"a", Int64>>, <<"b", Int64>>, <<"c", Int64>>>>,
        <<<<"b", String>>, <<"c", Int64>>>>}

\* the types of column s in the schemas with a Struct column: Structs that
\* share fields, that disagree on a field, that nest Structs, and Int64
StructTypes ==
  {Struct(<<<<"a", Int64>>, <<"b", Int64>>>>),
   Struct(<<<<"b", Int64>>, <<"c", Int64>>>>),
   Struct(<<<<"c", Int64>>>>),
   Struct(<<<<"a", Float64>>>>),
   Struct(<<<<"n", Struct(<<<<"a", Int64>>, <<"b", Int64>>>>)>>>>),
   Struct(<<<<"n", Struct(<<<<"b", Int64>>, <<"c", Int64>>>>)>>>>),
   Struct(<<<<"n", Struct(<<<<"b", String>>>>)>>>>),
   Struct(<<<<"n", Int64>>>>),
   Int64}

\* schemas with column s, alone or after column a
StructSchemas ==
  {<<<<"s", t>>>> : t \in StructTypes}
  \cup {<<<<"a", Int64>>, <<"s", Struct(<<<<"a", Int64>>, <<"b", Int64>>>>)>>>>}

SchemaLists ==
  SeqsUpTo(PrimSchemas, MaxSchemas) \cup SeqsUpTo(StructSchemas, MaxSchemas)

(***************************************************************************)
(* The calls of schema.py.                                                 *)
(***************************************************************************)
CallMergeSchemas ==
  /\ op = "idle"
  /\ \E schemas \in SchemaLists :
       /\ op' = "merge_schemas"
       /\ args' = [schemas |-> schemas]
       /\ ret' = merge_schemas(schemas, FALSE)

\* merge_schemas([merge_schemas([s1, s2]), s3]): the outer call, made with
\* the schema the inner call returned; an exception of the inner call passes
\* through
CallMergeMerged ==
  /\ op = "merge_schemas"
  /\ Len(args.schemas) = 2
  /\ \E s3 \in PrimSchemas \cup StructSchemas :
       /\ op' = "merge_schemas_merged"
       /\ args' = [schemas |-> Append(args.schemas, s3)]
       /\ ret' = IF ret.err # "" THEN ret
                 ELSE merge_schemas(<<ret.val, s3>>, FALSE)

\* the index maps that reorder a list of n items
Permutations_of(n) ==
  {p \in [1..n -> 1..n] : \A i, j \in 1..n : p[i] = p[j] => i = j}

\* the schemas of the lists that are merged again in another order: those
\* with a Struct column, and Struct-free ones that agree, that disagree on
\* the type of b, and that have their columns in different orders
PermutedSchemas ==
  StructSchemas
  \cup {<<>>, <<<<"b", Int64>>>>, <<<<"b", Float64>>>>,
        <<<<"a", Int64>>, <<"b", Int64>>>>, <<<<"b", Int64>>, <<"a", Int64>>>>,
        <<<<"b", String>>, <<"c", Int64>>>>}

\* merge_schemas called with the schemas of an earlier call in another order
CallMergePermuted ==
  /\ op = "merge_schemas"
  /\ \A k \in 1..Len(args.schemas) : args.schemas[k] \in PermutedSchemas
  /\ \E p \in Permutations_of(Len(args.schemas)) :
       LET permuted == [i \in 1..Len(args.schemas) |-> args.schemas[p[i]]]
       IN /\ op' = "merge_schemas_permuted"
          /\ args' = [schemas |-> args.schemas, permuted |-> permuted, given |-> ret]
          /\ ret' = merge_schemas(permuted, FALSE)

NextSchema ==
  \/ CallMergeSchemas
  \/ CallMergeMerged
  \/ CallMergePermuted
  \/ Return

SpecSchema == Init /\ [][NextSchema]_vars

(***************************************************************************)
(* C11: when a folder that list_partitions keeps (its last segment has an  *)
(* "=", or it is the root itself) has, between the root and itself, a      *)
(* segment without "=", the call raises ValueError and returns no          *)
(* partition at all; the folder is never skipped.                          *)
(***************************************************************************)
\* folder d has a segment below the root that is not key=value
Undecodable(d) ==
  \E i \in 1..Len(SegsBelow(args.s3dir_root, from_s3_uri(d))) :
    ~Contains(SegsBelow(args.s3dir_root, from_s3_uri(d))[i], "=")

C11_UndecodableFolderRaises ==
  (op = "list_partitions" /\ \E d \in PartitionFolders : Undecodable(d)) =>
    ret.err = "ValueError" /\ ret.val = <<>>

\* a listing with a folder that decodes next to one that does not
C11_Witness ==
  /\ op = "list_partitions"
  /\ \E d \in PartitionFolders : Undecodable(d)
  /\ \E d \in PartitionFolders :
       d # S3Path_uri(args.s3dir_root) /\ ~Undecodable(d)
  /\ ret.err = "ValueError"

(***************************************************************************)
(* C12: when merge_schemas succeeds on schemas without Struct columns, the *)
(* result's column names are the union of the inputs' column names, each   *)
(* once, ordered by first appearance (schemas in list order, the columns   *)
(* of a schema in its own order), and each column has the type it has in   *)
(* every input that has it.                                                *)
(***************************************************************************)
\* no column of the schema is a Struct
NoStruct(schema) == \A i \in 1..Len(schema) : ~IsStruct(schema[i][2])

RECURSIVE AllNames(_)
\* the column names of the schemas as they are met: list order, then own order
AllNames(schemas) ==
  IF schemas = <<>> THEN <<>>
  ELSE DictKeys(schemas[1]) \o AllNames(Tail(schemas))

\* names holds every name of the schemas once, earlier met names first
InFirstAppearanceOrder(names, schemas) ==
  /\ {names[i] : i \in 1..Len(names)}
       = {AllNames(schemas)[i] : i \in 1..Len(AllNames(schemas))}
  /\ \A i, j \in 1..Len(names) :
       i < j => FirstIndex(AllNames(schemas), names[i])
                  < FirstIndex(AllNames(schemas), names[j])

C12_UnionInFirstAppearanceOrder ==
  (/\ op = "merge_schemas"
   /\ ret.err = ""
   /\ \A k \in 1..Len(args.schemas) : NoStruct(args.schemas[k])) =>
    /\ InFirstAppearanceOrder(DictKeys(ret.val), args.schemas)
    /\ \A k \in 1..Len(args.schemas) : \A i \in 1..Len(args.schemas[k]) :
         DictGet(ret.val, args.schemas[k][i][1]) = args.schemas[k][i][2]

\* {a, b}, {a}, {a, b, c}, all Int64, merge to {a, b, c}
C12_Witness ==
  /\ op = "merge_schemas"
  /\ args.schemas = << <<<<"a", Int64>>, <<"b", Int64>>>>,
                       <<<<"a", Int64>>>>,
                       <<<<"a", Int64>>, <<"b", Int64>>, <<"c", Int64>>>> >>
  /\ ret = Ok(<<<<"a", Int64>>, <<"b", Int64>>, <<"c", Int64>>>>)

(***************************************************************************)
(* C13: merge_schemas raises TypeError, returning no schema, exactly when  *)
(* some column name, or recursively some field of a Struct column being    *)
(* merged, occurs in two inputs with types that differ and are not both    *)
(* Struct: a Struct against a non-Struct, or two different non-Struct      *)
(* types, Int64 against Float64 included.                                  *)
(***************************************************************************)
RECURSIVE TypesConflict(_, _)
\* two types of one name that cannot be merged
TypesConflict(t1, t2) ==
  IF IsStruct(t1) /\ IsStruct(t2)
  THEN \E i \in 1..Len(t1.fields) : \E j \in 1..Len(t2.fields) :
         /\ t1.fields[i][1] = t2.fields[j][1]
         /\ TypesConflict(t1.fields[i][2], t2.fields[j][2])
  ELSE t1 # t2

\* two of the schemas have a column in conflict
SchemasConflict(schemas) ==
  \E k1, k2 \in 1..Len(schemas) :
    /\ k1 < k2
    /\ TypesConflict(Struct(schemas[k1]), Struct(schemas[k2]))

C13_RaisesIffConflict ==
  (op = "merge_schemas") =>
    /\ ret.err \in {"", "TypeError"}
    /\ ret.err = "TypeError" <=> SchemasConflict(args.schemas)

\* {a: Int64, b: Float64} and {b: String, c: Int64} do not merge
C13_Witness ==
  /\ op = "merge_schemas"
  /\ args.schemas = << <<<<"a", Int64>>, <<"b", Float64>>>>,
                       <<<<"b", String>>, <<"c", Int64>>>> >>
  /\ ret.err = "TypeError"

(***************************************************************************)
(* C14: when merge_schemas succeeds and a column is a Struct in every      *)
(* input that has it, the merged column is a Struct whose field names are  *)
(* exactly the union of the field names of those inputs, each once, and    *)
(* each field is typed by the same rule from the inputs that have it, at   *)
(* every depth and for any number of inputs.                               *)
(***************************************************************************)
\* the field names of a Struct
FieldNames(dtype) == {dtype.fields[i][1] : i \in 1..Len(dtype.fields)}

RECURSIVE MergedFrom(_, _)
\* dtype is the merge of the types (of one name) in the set types
MergedFrom(dtype, types) ==
  IF \A t \in types : IsStruct(t)
  THEN /\ IsStruct(dtype)
       /\ FieldNames(dtype) = UNION {FieldNames(t) : t \in types}
       /\ Len(dtype.fields) = Cardinality(FieldNames(dtype))
       /\ \A i \in 1..Len(dtype.fields) :
            MergedFrom(dtype.fields[i][2],
                       {DictGet(t.fields, dtype.fields[i][1]) :
                          t \in {u \in types : dtype.fields[i][1] \in FieldNames(u)}})
  ELSE \A t \in types : dtype = t

\* the types column col_name has in the schemas that have it
TypesOf(col_name, schemas) ==
  {DictGet(schemas[k], col_name) :
     k \in {x \in 1..Len(schemas) : DictHas(schemas[x], col_name)}}

C14_StructFieldsAreUnion ==
  (op = "merge_schemas" /\ ret.err = "") =>
    \A i \in 1..Len(ret.val) :
      (\A t \in TypesOf(ret.val[i][1], args.schemas) : IsStruct(t)) =>
        MergedFrom(ret.val[i][2], TypesOf(ret.val[i][1], args.schemas))

\* s{a, b}, s{b, c} and s{c} merge to an s with the fields a, b and c
C14_Witness ==
  /\ op = "merge_schemas"
  /\ args.schemas = << <<<<"s", Struct(<<<<"a", Int64>>, <<"b", Int64>>>>)>>>>,
                       <<<<"s", Struct(<<<<"b", Int64>>, <<"c", Int64>>>>)>>>>,
                       <<<<"s", Struct(<<<<"c", Int64>>>>)>>>> >>
  /\ ret.err = ""
  /\ FieldNames(ret.val[1][2]) = {"a", "b", "c"}

(***************************************************************************)
(* C15: in a Struct column merge_schemas produces, the fields are ordered  *)
(* by first appearance across the inputs in list order: the fields of the  *)
(* earlier schema's Struct first, in their order, then the new fields of   *)
(* later schemas; s{a, b} then s{b, c} gives the field order a, b, c.      *)
(***************************************************************************)
\* the field dicts of column col_name in the schemas that have it, in list order
FieldsOf(col_name, schemas) ==
  [k \in 1..Len(SelectSeq(schemas, LAMBDA s : DictHas(s, col_name))) |->
     DictGet(SelectSeq(schemas, LAMBDA s : DictHas(s, col_name))[k], col_name).fields]

C15_StructFieldsInFirstAppearanceOrder ==
  (op = "merge_schemas" /\ ret.err = "") =>
    \A i \in 1..Len(ret.val) :
      (\A t \in TypesOf(ret.val[i][1], args.schemas) : IsStruct(t)) =>
        InFirstAppearanceOrder(DictKeys(ret.val[i][2].fields),
                               FieldsOf(ret.val[i][1], args.schemas))

(***************************************************************************)
(* C16: for schemas s1, s2, s3 without Struct columns, merging the merge   *)
(* of s1 and s2 with s3 and merging the three at once either both raise    *)
(* TypeError or both succeed with equal schemas: the same columns in the   *)
(* same order with the same types.                                         *)
(***************************************************************************)
C16_MergeOfMergedIsMergeOfAll ==
  (/\ op = "merge_schemas_merged"
   /\ \A k \in 1..Len(args.schemas) : NoStruct(args.schemas[k])) =>
    \/ /\ ret.err = "TypeError"
       /\ merge_schemas(args.schemas, FALSE).err = "TypeError"
    \/ /\ ret.err = ""
       /\ merge_schemas(args.schemas, FALSE).err = ""
       /\ ret.val = merge_schemas(args.schemas, FALSE).val

\* three different Struct-free schemas merged in two steps to three columns
C16_Witness ==
  /\ op = "merge_schemas_merged"
  /\ \A k \in 1..Len(args.schemas) : NoStruct(args.schemas[k])
  /\ args.schemas[1] # args.schemas[2]
  /\ args.schemas[2] # args.schemas[3]
  /\ args.schemas[1] # args.schemas[3]
  /\ ret.err = ""
  /\ Len(ret.val) = 3

\* the inner merge of a two-step merge raises
C16_WitnessRaise ==
  /\ op = "merge_schemas_merged"
  /\ \A k \in 1..Len(args.schemas) : NoStruct(args.schemas[k])
  /\ merge_schemas(SubSeq(args.schemas, 1, 2), FALSE).err = "TypeError"
  /\ ret.err = "TypeError"

(***************************************************************************)
(* polars DataFrames, as utils.py uses them.  A table is the sequence of   *)
(* its columns; a column has a name, a data type and its values, one per   *)
(* row.  A value is a label of the cell's content, Null the missing value. *)
(***************************************************************************)
Null == "null"

Column(name, dtype, values) == [name |-> name, dtype |-> dtype, values |-> values]

\* df.schema: column name to data type, in column order
schema_of(df) == [i \in 1..Len(df) |-> <<df[i].name, df[i].dtype>>]

\* df.height of a table with at least one column
height(df) == Len(df[1].values)

(***************************************************************************)
(* get_merged_schema of utils.py                                           *)
(***************************************************************************)
types_differ_by_tag(merged_type, data_type) == merged_type.tag # data_type.tag

\* a comparison that, like merge_schemas, takes two Structs as no conflict
types_differ_unless_structs(merged_type, data_type) ==
  merged_type # data_type /\ ~(IsStruct(merged_type) /\ IsStruct(data_type))

\* merged_schema[col_name] != data_type
types_differ(merged_type, data_type) == merged_type # data_type

set_type_merging_structs(merged_schema, col_name, data_type) ==
  IF /\ DictHas(merged_schema, col_name)
     /\ IsStruct(DictGet(merged_schema, col_name))
     /\ IsStruct(data_type)
  THEN DictSet(merged_schema, col_name,
               merge_schemas(<<DictGet(merged_schema, col_name).fields,
                               data_type.fields>>, TRUE).val)
  ELSE DictSet(merged_schema, col_name, data_type)

\* merged_schema[col_name] = data_type, whether or not the name is present
set_type(merged_schema, col_name, data_type) ==
  DictSet(merged_schema, col_name, data_type)

RECURSIVE get_merged_schema_items(_, _, _)
\* the inner loop: the schema items of one table, merged_schema so far
get_merged_schema_items(items, merged_schema, raise_on_conflict) ==
  IF items = <<>> THEN Ok(merged_schema)
  ELSE
    LET col_name  == items[1][1]
        data_type == items[1][2]
    IN IF /\ DictHas(merged_schema, col_name)
          /\ types_differ(DictGet(merged_schema, col_name), data_type)
          /\ raise_on_conflict
       THEN SchemaConflict(col_name, DictGet(merged_schema, col_name), data_type)
       ELSE get_merged_schema_items(Tail(items),
              set_type(merged_schema, col_name, data_type), raise_on_conflict)

RECURSIVE get_merged_schema_loop(_, _, _)
\* the outer loop: the tables in list order
get_merged_schema_loop(dfs, merged_schema, raise_on_conflict) ==
  IF dfs = <<>> THEN Ok(merged_schema)
  ELSE LET one == get_merged_schema_items(schema_of(dfs[1]), merged_schema,
                                          raise_on_conflict)
       IN IF one.err # "" THEN one
          ELSE get_merged_schema_loop(Tail(dfs), one.val, raise_on_conflict)

get_merged_schema_never_raising(dfs, raise_on_conflict) ==
  get_merged_schema_loop(dfs, <<>>, FALSE)

get_merged_schema(dfs, raise_on_conflict) ==
  get_merged_schema_loop(dfs, <<>>, raise_on_conflict)

(***************************************************************************)
(* harmonize_schemas of utils.py                                           *)
(***************************************************************************)
\* set(df.schema): the column names of a table
this_schema(df) == {df[i].name : i \in 1..Len(df)}

null_column_int64(k, v, n) == Column(k, Int64, [i \in 1..n |-> Null])

\* pl.lit(None, dtype=v).alias(k), broadcast to the n rows of the table
null_column(k, v, n) == Column(k, v, [i \in 1..n |-> Null])

not_popped_none(df, schema) == schema

\* dict(schema) after the table's column names are popped from it
not_popped(df, schema) ==
  SelectSeq(schema, LAMBDA item : item[1] \notin this_schema(df))

\* one table: KeyError when pop() meets a column name the schema lacks,
\* else df.with_columns(*new_columns), the new columns after the table's own
harmonize_one(df, schema) ==
  IF \E k \in this_schema(df) : ~DictHas(schema, k)
  THEN Raise("KeyError")
  ELSE LET merged_schema == not_popped(df, schema)
           new_columns   == [i \in 1..Len(merged_schema) |->
                               null_column(merged_schema[i][1], merged_schema[i][2],
                                           height(df))]
       IN Ok(df \o new_columns)

RECURSIVE harmonize_loop(_, _, _)
\* the loop over the tables, new_dfs so far
harmonize_loop(dfs, schema, new_dfs) ==
  IF dfs = <<>> THEN Ok(new_dfs)
  ELSE LET one == harmonize_one(dfs[1], schema)
       IN IF one.err # "" THEN one
          ELSE harmonize_loop(Tail(dfs), schema, Append(new_dfs, one.val))

harmonize_schemas(dfs, schema) == harmonize_loop(dfs, schema, <<>>)

(***************************************************************************)
(* merge_dataframes of utils.py                                            *)
(***************************************************************************)
\* df.select(cols): the columns named by cols, in the order of cols
select(df, cols) ==
  [i \in 1..Len(cols) |-> df[CHOOSE j \in 1..Len(df) : df[j].name = cols[i]]]

RECURSIVE stacked_values(_, _)
\* the values of column i of the tables, one table after the other
stacked_values(dfs, i) ==
  IF dfs = <<>> THEN <<>>
  ELSE dfs[1][i].values \o stacked_values(Tail(dfs), i)

concat_last_first(dfs) ==
  IF dfs = <<>> THEN Raise("ValueError")
  ELSE IF \E k \in 1..Len(dfs) : schema_of(dfs[k]) # schema_of(dfs[1])
  THEN Raise("SchemaError")
  ELSE Ok([i \in 1..Len(dfs[1]) |->
             Column(dfs[1][i].name, dfs[1][i].dtype,
                    stacked_values([k \in 1..Len(dfs) |-> dfs[Len(dfs) + 1 - k]], i))])

\* pl.concat(dfs), vertical: ValueError for an empty list, SchemaError when
\* the tables' schemas are not the same, else the rows of the tables in list
\* order
concat(dfs) ==
  IF dfs = <<>> THEN Raise("ValueError")
  ELSE IF \E k \in 1..Len(dfs) : schema_of(dfs[k]) # schema_of(dfs[1])
  THEN Raise("SchemaError")
  ELSE Ok([i \in 1..Len(dfs[1]) |->
             Column(dfs[1][i].name, dfs[1][i].dtype, stacked_values(dfs, i))])

merge_dataframes_lenient(dfs) ==
  LET schema == get_merged_schema(dfs, FALSE)
  IN LET dfs_harmonized == harmonize_schemas(dfs, schema.val)
     IN IF dfs_harmonized.err # "" THEN dfs_harmonized
        ELSE concat([k \in 1..Len(dfs) |->
                       select(dfs_harmonized.val[k], DictKeys(schema.val))])

merge_dataframes(dfs) ==
  LET schema == get_merged_schema(dfs, TRUE)
  IN IF schema.err # "" THEN schema
     ELSE LET dfs_harmonized == harmonize_schemas(dfs, schema.val)
          IN IF dfs_harmonized.err # "" THEN dfs_harmonized
             ELSE concat([k \in 1..Len(dfs) |->
                            select(dfs_harmonized.val[k], DictKeys(schema.val))])

(***************************************************************************)
(* The tables and target schemas the calls of utils.py are made with.      *)
(* Every table has at least one column.                                    *)
(***************************************************************************)
MaxTables == 3

StructAB == Struct(<<<<"a", Int64>>, <<"b", Int64>>>>)

StructBC == Struct(<<<<"b", Int64>>, <<"c", Int64>>>>)

\* the tables of test_harmonize_schemas (a and b; b and a Struct c; a Float64
\* b), and tables whose c is another Struct or no Struct, and one without rows
Tables ==
  {<<Column("a", Int64, <<"1", "2">>), Column("b", String, <<"x", "y">>)>>,
   <<Column("b", String, <<"z">>), Column("c", StructAB, <<"p">>)>>,
   <<Column("b", Float64, <<"1.1">>)>>,
   <<Column("c", StructBC, <<"q">>), Column("a", Int64, <<"3">>)>>,
   <<Column("c", Int64, <<"4">>)>>,
   <<Column("a", Int64, <<>>)>>}

TableLists == SeqsUpTo(Tables, MaxTables)

\* target schemas: what the first two test tables merge to, the test's
\* schema with b as Float64, one with a further column d in another order,
\* one with other types, and two that lack columns of the tables
TargetSchemas ==
  {<<<<"a", Int64>>, <<"b", String>>, <<"c", StructAB>>>>,
   <<<<"a", Int64>>, <<"b", Float64>>, <<"c", StructAB>>>>,
   <<<<"b", String>>, <<"d", Float64>>, <<"c", StructAB>>, <<"a", Int64>>>>,
   <<<<"c", StructBC>>, <<"a", Float64>>, <<"b", Int64>>>>,
   <<<<"a", Int64>>>>,
   <<>>}

(***************************************************************************)
(* The calls of utils.py.                                                  *)
(***************************************************************************)
CallGetMergedSchema ==
  /\ op = "idle"
  /\ \E dfs \in TableLists, raise_on_conflict \in BOOLEAN :
       /\ op' = "get_merged_schema"
       /\ args' = [dfs |-> dfs, raise_on_conflict |-> raise_on_conflict]
       /\ ret' = get_merged_schema(dfs, raise_on_conflict)

CallHarmonizeSchemas ==
  /\ op = "idle"
  /\ \E dfs \in TableLists, schema \in TargetSchemas :
       /\ op' = "harmonize_schemas"
       /\ args' = [dfs |-> dfs, schema |-> schema]
       /\ ret' = harmonize_schemas(dfs, schema)

\* harmonize_schemas called again with the tables it returned and the same
\* target schema
CallHarmonizeHarmonized ==
  /\ op = "harmonize_schemas"
  /\ ret.err = ""
  /\ op' = "harmonize_schemas_harmonized"
  /\ args' = [dfs |-> ret.val, schema |-> args.schema, given |-> args.dfs]
  /\ ret' = harmonize_schemas(ret.val, args.schema)

CallMergeDataframes ==
  /\ op = "idle"
  /\ \E dfs \in TableLists :
       /\ op' = "merge_dataframes"
       /\ args' = [dfs |-> dfs]
       /\ ret' = merge_dataframes(dfs)

NextUtils ==
  \/ CallGetMergedSchema
  \/ CallHarmonizeSchemas
  \/ CallHarmonizeHarmonized
  \/ CallMergeDataframes
  \/ Return

SpecUtils == Init /\ [][NextUtils]_vars

(***************************************************************************)
(* C17: get_merged_schema with raise_on_conflict false never raises and    *)
(* gives every column of the tables the type it has in the last table      *)
(* that has it; with raise_on_conflict true it raises TypeError whenever   *)
(* some column has different types in two of the tables, and otherwise     *)
(* returns what it returns with the flag false.                            *)
(***************************************************************************)
\* the type of column col_name in a table that has it
TypeIn(df, col_name) == DictGet(schema_of(df), col_name)

\* the last table of dfs that has column col_name
LastWith(col_name, dfs) ==
  dfs[CHOOSE k \in 1..Len(dfs) :
        /\ col_name \in this_schema(dfs[k])
        /\ \A j \in (k + 1)..Len(dfs) : col_name \notin this_schema(dfs[j])]

\* schema maps each column name of the tables, once, to its last type
LastTypeWins(schema, dfs) ==
  /\ {schema[i][1] : i \in 1..Len(schema)}
       = UNION {this_schema(dfs[k]) : k \in 1..Len(dfs)}
  /\ Len(schema) = Cardinality({schema[i][1] : i \in 1..Len(schema)})
  /\ \A i \in 1..Len(schema) :
       schema[i][2] = TypeIn(LastWith(schema[i][1], dfs), schema[i][1])

\* some column has different types in two of the tables
TablesConflict(dfs) ==
  \E k1, k2 \in 1..Len(dfs) :
    \E col_name \in this_schema(dfs[k1]) \cap this_schema(dfs[k2]) :
      TypeIn(dfs[k1], col_name) # TypeIn(dfs[k2], col_name)

C17_WitnessRaise ==
  /\ op = "get_merged_schema"
  /\ args.raise_on_conflict
  /\ Len(args.dfs) = 3
  /\ schema_of(args.dfs[1]) = <<<<"a", Int64>>, <<"b", String>>>>
  /\ schema_of(args.dfs[2]) = <<<<"b", String>>, <<"c", StructAB>>>>
  /\ schema_of(args.dfs[3]) = <<<<"b", Float64>>>>
  /\ ret.err = "TypeError"

(***************************************************************************)
(* C18: get_merged_schema with raise_on_conflict false does not merge      *)
(* Struct columns field by field: a column that is a Struct in the last    *)
(* table that has it comes out with exactly that Struct type, and no field *)
(* of an earlier table's Struct is added to it.                            *)
(***************************************************************************)
C18_LastStructAsIs ==
  (op = "get_merged_schema" /\ ~args.raise_on_conflict) =>
    \A k \in 1..Len(args.dfs) : \A col_name \in this_schema(args.dfs[k]) :
      IsStruct(TypeIn(LastWith(col_name, args.dfs), col_name)) =>
        /\ DictGet(ret.val, col_name).fields
             = TypeIn(LastWith(col_name, args.dfs), col_name).fields
        /\ DictGet(ret.val, col_name).tag = "Struct"

\* c is Struct{a, b} in one table and Struct{b, c} in a later one: the
\* result has Struct{b, c}, without a
C18_Witness ==
  /\ op = "get_merged_schema"
  /\ ~args.raise_on_conflict
  /\ \E k1, k2 \in 1..Len(args.dfs) :
       /\ k1 < k2
       /\ "c" \in this_schema(args.dfs[k1])
       /\ TypeIn(args.dfs[k1], "c") = StructAB
       /\ LastWith("c", args.dfs) = args.dfs[k2]
       /\ TypeIn(args.dfs[k2], "c") = StructBC
  /\ DictGet(ret.val, "c") = StructBC

(***************************************************************************)
(* C19: harmonize_schemas(tables, schema), when it returns, returns for    *)
(* each input table, in the same position, that table extended with one    *)
(* all-null column per schema column name the table lacks, typed with the  *)
(* schema's type for that name; every column the table already had keeps   *)
(* its name, its values, its row count and its own type, also when the     *)
(* schema declares another type for that name.                             *)
(***************************************************************************)
\* out is df, untouched, followed by one all-null column of the schema's
\* type for each name of the schema that df lacks
ExtendedWithNulls(out, df, schema) ==
  /\ Len(out) >= Len(df)
  /\ SubSeq(out, 1, Len(df)) = df
  /\ {out[j].name : j \in (Len(df) + 1)..Len(out)}
       = {schema[i][1] : i \in 1..Len(schema)} \ this_schema(df)
  /\ Len(out) = Cardinality({out[j].name : j \in 1..Len(out)})
  /\ \A j \in (Len(df) + 1)..Len(out) :
       /\ out[j].dtype = DictGet(schema, out[j].name)
       /\ Len(out[j].values) = height(df)
       /\ \A r \in 1..Len(out[j].values) : out[j].values[r] = Null

C19_ExtendedWithNullColumns ==
  (op = "harmonize_schemas" /\ ret.err = "") =>
    /\ Len(ret.val) = Len(args.dfs)
    /\ \A k \in 1..Len(args.dfs) :
         ExtendedWithNulls(ret.val[k], args.dfs[k], args.schema)

\* the call of the test: the tables {a, b: String} and {b, c} with the
\* schema {a, b: Float64, c}; the first keeps its String b and gains c, the
\* second gains a
C19_Witness ==
  /\ op = "harmonize_schemas"
  /\ Len(args.dfs) = 2
  /\ schema_of(args.dfs[1]) = <<<<"a", Int64>>, <<"b", String>>>>
  /\ schema_of(args.dfs[2]) = <<<<"b", String>>, <<"c", StructAB>>>>
  /\ args.schema = <<<<"a", Int64>>, <<"b", Float64>>, <<"c", StructAB>>>>
  /\ ret.err = ""
  /\ schema_of(ret.val[1]) = <<<<"a", Int64>>, <<"b", String>>, <<"c", StructAB>>>>
  /\ schema_of(ret.val[2]) = <<<<"b", String>>, <<"c", StructAB>>, <<"a", Int64>>>>

(***************************************************************************)
(* C20: harmonizing is idempotent: when harmonize_schemas succeeds on      *)
(* tables and a target schema, harmonizing its result again with the same  *)
(* schema succeeds and returns that result unchanged: the same columns in  *)
(* the same order with the same values, no column added twice.             *)
(***************************************************************************)
C20_HarmonizeIdempotent ==
  (op = "harmonize_schemas_harmonized") => ret = Ok(args.dfs)

\* one table that gained columns in the first call and none in the second
C20_Witness ==
  /\ op = "harmonize_schemas_harmonized"
  /\ Len(args.given) = 1
  /\ Len(args.dfs[1]) > Len(args.given[1])
  /\ ret = Ok(args.dfs)

(***************************************************************************)
(* C21: when merge_dataframes succeeds, the result's columns are the       *)
(* merged schema's columns in the merged schema's order, its row count is  *)
(* the sum of the tables' row counts, its rows are the tables' rows in     *)
(* table order with the row order of each table kept, and each row holds   *)
(* its original value in every column its table had and null in every      *)
(* column its table lacked.                                                *)
(***************************************************************************)
RECURSIVE RowsOf(_)
\* the rows of the tables together
RowsOf(dfs) == IF dfs = <<>> THEN 0 ELSE height(dfs[1]) + RowsOf(Tail(dfs))

\* the column of df named col_name
ColumnOf(df, col_name) == df[CHOOSE j \in 1..Len(df) : df[j].name = col_name]

C21_RowsOfTablesInOrder ==
  (op = "merge_dataframes" /\ ret.err = "") =>
    /\ schema_of(ret.val) = get_merged_schema(args.dfs, TRUE).val
    /\ InFirstAppearanceOrder([i \in 1..Len(ret.val) |-> ret.val[i].name],
                              [k \in 1..Len(args.dfs) |-> schema_of(args.dfs[k])])
    /\ \A i \in 1..Len(ret.val) : Len(ret.val[i].values) = RowsOf(args.dfs)
    /\ \A k \in 1..Len(args.dfs) : \A r \in 1..height(args.dfs[k]) :
         \A i \in 1..Len(ret.val) :
           ret.val[i].values[RowsOf(SubSeq(args.dfs, 1, k - 1)) + r]
             = IF ret.val[i].name \in this_schema(args.dfs[k])
               THEN ColumnOf(args.dfs[k], ret.val[i].name).values[r]
               ELSE Null

\* the two tables of the test that merge: {a, b} with two rows and {b, c}
\* with one row give a, b, c with three rows
C21_Witness ==
  /\ op = "merge_dataframes"
  /\ args.dfs = << <<Column("a", Int64, <<"1", "2">>), Column("b", String, <<"x", "y">>)>>,
                   <<Column("b", String, <<"z">>), Column("c", StructAB, <<"p">>)>> >>
  /\ ret = Ok(<<Column("a", Int64, <<"1", "2", Null>>),
                Column("b", String, <<"x", "y", "z">>),
                Column("c", StructAB, <<Null, Null, "p">>)>>)

(***************************************************************************)
(* C22: merge_dataframes raises TypeError, producing no table, whenever    *)
(* two of the tables give one column name two different non-Struct types,  *)
(* wherever in the list the two tables are.                                *)
(***************************************************************************)
\* two of the tables give a column two different non-Struct types
NonStructConflict(dfs) ==
  \E k1, k2 \in 1..Len(dfs) :
    \E col_name \in this_schema(dfs[k1]) \cap this_schema(dfs[k2]) :
      /\ ~IsStruct(TypeIn(dfs[k1], col_name))
      /\ ~IsStruct(TypeIn(dfs[k2], col_name))
      /\ TypeIn(dfs[k1], col_name) # TypeIn(dfs[k2], col_name)

C22_NonStructConflictRaises ==
  (op = "merge_dataframes" /\ NonStructConflict(args.dfs)) =>
    ret.err = "TypeError"

\* b is String in the first table and Float64 in the last of three
C22_Witness ==
  /\ op = "merge_dataframes"
  /\ Len(args.dfs) = 3
  /\ "b" \in this_schema(args.dfs[1]) /\ TypeIn(args.dfs[1], "b") = String
  /\ "b" \notin this_schema(args.dfs[2])
  /\ "b" \in this_schema(args.dfs[3]) /\ TypeIn(args.dfs[3], "b") = Float64
  /\ ret.err = "TypeError"

(***************************************************************************)
(* C23: merge_dataframes applied to three tables with the columns {a, b},  *)
(* {b, c} and {b}, b being String in one and numeric in another, raises    *)
(* TypeError and produces no table; applied to the first two of them, in   *)
(* which b is String, it produces one table with the columns a, b and c,   *)
(* as many rows as the two tables have together, and null in the columns   *)
(* a row's table lacked.                                                   *)
(***************************************************************************)
\* the three tables: {a, b}, {b, c}, {b}, b String in one, numeric in another
ScenarioE(dfs) ==
  /\ Len(dfs) = 3
  /\ this_schema(dfs[1]) = {"a", "b"}
  /\ this_schema(dfs[2]) = {"b", "c"}
  /\ this_schema(dfs[3]) = {"b"}
  /\ \E k1, k2 \in 1..3 :
       /\ TypeIn(dfs[k1], "b") = String
       /\ TypeIn(dfs[k2], "b") \in {Int64, Float64}

\* the first two tables of the scenario, b String in both
ScenarioFirstTwo(dfs) ==
  /\ Len(dfs) = 2
  /\ this_schema(dfs[1]) = {"a", "b"}
  /\ this_schema(dfs[2]) = {"b", "c"}
  /\ TypeIn(dfs[1], "b") = String
  /\ TypeIn(dfs[2], "b") = String

\* table is one table with the columns a, b, c holding the rows of dfs, null
\* where a row's table had no such column
OneTableABC(table, dfs) ==
  /\ {table[i].name : i \in 1..Len(table)} = {"a", "b", "c"}
  /\ Len(table) = 3
  /\ \A i \in 1..Len(table) : Len(table[i].values) = RowsOf(dfs)
  /\ \A k \in 1..Len(dfs) : \A r \in 1..height(dfs[k]) : \A i \in 1..Len(table) :
       table[i].name \notin this_schema(dfs[k]) =>
         table[i].values[RowsOf(SubSeq(dfs, 1, k - 1)) + r] = Null

\* C23 as it stands: the three tables give one table with the columns a, b, c
C23_ScenarioEOneTable ==
  (op = "merge_dataframes" /\ ScenarioE(args.dfs)) =>
    ret.err = "" /\ OneTableABC(ret.val, args.dfs)

\* C23, amended: the three tables raise TypeError, the first two give the table
C23_ScenarioERaises ==
  /\ (op = "merge_dataframes" /\ ScenarioE(args.dfs)) => ret.err = "TypeError"
  /\ (op = "merge_dataframes" /\ ScenarioFirstTwo(args.dfs)) =>
       ret.err = "" /\ OneTableABC(ret.val, args.dfs)

\* the three tables of the scenario, raising
C23_Witness ==
  /\ op = "merge_dataframes"
  /\ ScenarioE(args.dfs)
  /\ ret.err = "TypeError"

\* the first two tables, merged to one table
C23_WitnessFirstTwo ==
  /\ op = "merge_dataframes"
  /\ ScenarioFirstTwo(args.dfs)
  /\ ret.err = ""
  /\ OneTableABC(ret.val, args.dfs)

(***************************************************************************)
(* s3/write.py.  The text configure_s3_write_options handles (extensions,  *)
(* header values, metadata) is written as strings; a dict is the sequence  *)
(* of its items, as before.                                                *)
(***************************************************************************)
S3_METADATA_KEY_N_RECORD == "n_record"

S3_METADATA_KEY_N_COLUMN == "n_column"

\* Algorithm.<member>.value of the compress library
Algorithms == {"uncompressed", "gzip", "bz2", "snappy", "lz4", "lzma", "zstd"}

content_encoding_mapping ==
  <<<<"gzip", "gzip">>, <<"bz2", "bz2">>, <<"snappy", "snappy">>,
    <<"lz4", "lz4">>, <<"lzma", "lzo">>, <<"zstd", "zstd">>>>

file_ext_mapping ==
  <<<<"gzip", ".gz">>, <<"bz2", ".bz2">>, <<"snappy", ".snappy">>,
    <<"lz4", ".lz4">>, <<"lzma", ".lzo">>, <<"zstd", ".zst">>>>

\* d.get(k, default)
DictGetOr(d, k, default) == IF DictHas(d, k) THEN DictGet(d, k) ELSE default

RECURSIVE dict_update(_, _)
\* d.update(other)
dict_update(d, other) ==
  IF other = <<>> THEN d
  ELSE dict_update(DictSet(d, other[1][1], other[1][2]), Tail(other))

Digits == <<"0", "1", "2", "3", "4", "5", "6", "7", "8", "9">>

RECURSIVE str(_)
\* str(n) of a natural number: its decimal digits
str(n) == IF n < 10 THEN Digits[n + 1] ELSE str(n \div 10) \o Digits[(n % 10) + 1]

\* df.shape
shape(df) == <<IF df = <<>> THEN 0 ELSE height(df), Len(df)>>

\* polars_writer.Writer(format=..., parquet_compression=...); the compression
\* is <<>> when it is left unset (then it is no str) and <<codec>> when given
Writer(format, parquet_compression) ==
  [format |-> format, parquet_compression |-> parquet_compression]

\* ParquetCompressionEnum.uncompressed, a str enum member
ParquetCompressionEnum_uncompressed == "uncompressed"

\* the function returns the extension and changes the kwargs dict in place:
\* the result carries both
configure_s3_write_options(df, polars_writer, compress, s3pathlib_write_bytes_kwargs) ==
  LET more_metadata == <<<<S3_METADATA_KEY_N_RECORD, str(shape(df)[1])>>,
                         <<S3_METADATA_KEY_N_COLUMN, str(shape(df)[2])>>>>
      kwargs1 ==
        IF DictHas(s3pathlib_write_bytes_kwargs, "metadata")
        THEN DictSet(s3pathlib_write_bytes_kwargs, "metadata",
                     dict_update(DictGet(s3pathlib_write_bytes_kwargs, "metadata"),
                                 more_metadata))
        ELSE DictSet(s3pathlib_write_bytes_kwargs, "metadata", more_metadata)
      compress_str == compress
      kwargs2 ==
        IF DictHas(content_encoding_mapping, compress_str)
        THEN DictSet(kwargs1, "content_encoding",
                     DictGet(content_encoding_mapping, compress_str))
        ELSE kwargs1
      compress_ext == DictGetOr(file_ext_mapping, compress_str, "")
      compression  == polars_writer.parquet_compression
  IN IF polars_writer.format = "csv"
     THEN Ok([ext    |-> ".csv" \o compress_ext,
              kwargs |-> DictSet(kwargs2, "content_type", "text/plain")])
     ELSE IF polars_writer.format \in {"json", "ndjson"}
     THEN Ok([ext    |-> ".json" \o compress_ext,
              kwargs |-> DictSet(kwargs2, "content_type", "application/json")])
     ELSE IF polars_writer.format = "parquet"
     THEN LET kwargs3 == DictSet(kwargs2, "content_type", "application/x-parquet")
          IN IF compression # <<>>
             THEN IF compression[1] = ParquetCompressionEnum_uncompressed
                  THEN Ok([ext |-> ".parquet", kwargs |-> kwargs3])
                  ELSE Ok([ext    |-> "." \o compression[1] \o ".parquet",
                           kwargs |-> DictSet(kwargs3, "content_encoding",
                                              compression[1])])
             ELSE Ok([ext |-> ".parquet", kwargs |-> kwargs3])
     ELSE IF polars_writer.format = "delta"
     THEN Raise("NotImplementedError")
     ELSE Raise("ValueError")

(***************************************************************************)
(* partition_df_for_s3 of s3/write.py.  Column names and the values of the *)
(* partition columns are strings written as sequences of characters, the   *)
(* form encode_hive_partition and S3Path take them in.                     *)
(***************************************************************************)
\* df[name]
get_column(df, name) == df[CHOOSE j \in 1..Len(df) : df[j].name = name]

\* the values row r has in the columns part_keys, in the order of part_keys
row_values(df, part_keys, r) ==
  [i \in 1..Len(part_keys) |-> get_column(df, part_keys[i]).values[r]]

\* the keys of the groups of df.group_by(part_keys)
group_keys(df, part_keys) ==
  {row_values(df, part_keys, r) : r \in 1..height(df)}

\* the orders in which group_by may yield the groups: without
\* maintain_order the order is not determined
group_orders(df, part_keys) ==
  LET keys == group_keys(df, part_keys)
  IN {s \in [1..Cardinality(keys) -> keys] :
        \A i, j \in 1..Cardinality(keys) : s[i] = s[j] => i = j}

\* the rows of one group, in the order they have in df
group_rows(df, part_keys, part_values) ==
  SelectSeq([r \in 1..height(df) |-> r],
            LAMBDA r : row_values(df, part_keys, r) = part_values)

\* the table of a group: the rows of the group, every column of df
group_df(df, part_keys, part_values) ==
  LET rows == group_rows(df, part_keys, part_values)
  IN [i \in 1..Len(df) |->
        Column(df[i].name, df[i].dtype,
               [j \in 1..Len(rows) |-> df[i].values[rows[j]]])]

\* a drop that leaves the table as it is
drop_nothing(df, columns) == df

\* df.drop(columns)
drop(df, columns) ==
  SelectSeq(df, LAMBDA c : \A i \in 1..Len(columns) : c.name # columns[i])

RECURSIVE dict_zip(_, _)
\* dict(zip(keys, values))
dict_zip(keys, values) ==
  IF keys = <<>> \/ values = <<>> THEN <<>>
  ELSE dict_update(<<<<keys[1], values[1]>>>>, dict_zip(Tail(keys), Tail(values)))

\* the pairs the generator yields when group_by yields the groups in the
\* order groups
partition_df_for_s3_pairs(df, s3dir, part_keys, groups) ==
  [g \in 1..Len(groups) |->
     LET part_values       == groups[g]
         sub_df            == drop(group_df(df, part_keys, part_values), part_keys)
         kvs               == dict_zip(part_keys, part_values)
         partition_relpath == encode_hive_partition(kvs)
         s3dir_partition   == to_dir(joinpath(s3dir, partition_relpath))
     IN <<sub_df, s3dir_partition>>]

\* group_by raises when df lacks one of the part_keys
partition_df_for_s3(df, s3dir, part_keys, groups) ==
  IF \E i \in 1..Len(part_keys) : \A j \in 1..Len(df) : df[j].name # part_keys[i]
  THEN Raise("ColumnNotFoundError")
  ELSE Ok(partition_df_for_s3_pairs(df, s3dir, part_keys, groups))

(***************************************************************************)
(* The inputs of the calls of s3/write.py.                                 *)
(***************************************************************************)
\* the table of test_partition_df_for_s3 in small (id and tag, two tags), a
\* table with two partition columns, one without rows, and one whose tags
\* are the empty string and a string ending in "/"
WriteTables ==
  {<<Column(<<"i", "d">>, Int64, <<"1", "2", "3">>),
     Column(<<"t">>, String, <<<<"a">>, <<"b">>, <<"a">>>>)>>,
   <<Column(<<"t">>, String, <<<<"a">>, <<"a">>, <<"b">>>>),
     Column(<<"y">>, String, <<<<"1">>, <<"2">>, <<"1">>>>),
     Column(<<"i", "d">>, Int64, <<"1", "2", "3">>)>>,
   <<Column(<<"i", "d">>, Int64, <<>>), Column(<<"t">>, String, <<>>)>>,
   <<Column(<<"i", "d">>, Int64, <<"1", "2">>),
     Column(<<"t">>, String, <<<<>>, <<"1", "/">>>>)>>}

\* part_keys: one key, two keys in both orders, a key only one table has
PartKeys == {<<<<"t">>>>, <<<<"t">>, <<"y">>>>, <<<<"y">>, <<"t">>>>, <<<<"y">>>>}

\* s3dir: a folder, the same without the final "/", the bucket
WriteDirs ==
  {from_s3_uri(Uri(<<"b">>, <<"r", "/">>)), from_s3_uri(Uri(<<"b">>, <<"r">>)),
   from_s3_uri(Uri(<<"b">>, <<>>))}

\* the writers: every format, the parquet compression unset or given
Writers ==
  {Writer(format, parquet_compression) :
     format \in {"csv", "json", "ndjson", "parquet", "delta"},
     parquet_compression \in {<<>>, <<"uncompressed">>, <<"gzip">>, <<"zstd">>}}

\* s3pathlib_write_bytes_kwargs: empty, with metadata of the caller's, with a
\* content_encoding of the caller's
KwargsSet ==
  {<<>>,
   <<<<"metadata", <<<<"create_by", "alice">>>>>>>>,
   <<<<"content_encoding", "identity">>,
     <<"metadata", <<<<"n_record", "0">>>>>>>>}

(***************************************************************************)
(* The calls of s3/write.py.                                               *)
(***************************************************************************)
CallConfigureS3WriteOptions ==
  /\ op = "idle"
  /\ \E df \in WriteTables, polars_writer \in Writers, compress \in Algorithms,
        s3pathlib_write_bytes_kwargs \in KwargsSet :
       /\ op' = "configure_s3_write_options"
       /\ args' = [df |-> df, polars_writer |-> polars_writer, compress |-> compress,
                   s3pathlib_write_bytes_kwargs |-> s3pathlib_write_bytes_kwargs]
       /\ ret' = configure_s3_write_options(df, polars_writer, compress,
                                            s3pathlib_write_bytes_kwargs)

\* list(partition_df_for_s3(df, s3dir, part_keys))
CallPartitionDfForS3 ==
  /\ op = "idle"
  /\ \E df \in WriteTables, s3dir \in WriteDirs, part_keys \in PartKeys :
       /\ op' = "partition_df_for_s3"
       /\ args' = [df |-> df, s3dir |-> s3dir, part_keys |-> part_keys]
       /\ IF \A i \in 1..Len(part_keys) : \E j \in 1..Len(df) : df[j].name = part_keys[i]
          THEN \E groups \in group_orders(df, part_keys) :
                 ret' = partition_df_for_s3(df, s3dir, part_keys, groups)
          ELSE ret' = partition_df_for_s3(df, s3dir, part_keys, <<>>)

NextWrite ==
  \/ CallConfigureS3WriteOptions
  \/ CallPartitionDfForS3
  \/ Return

SpecWrite == Init /\ [][NextWrite]_vars

(***************************************************************************)
(* C24: configure_s3_write_options returns the format's extension followed *)
(* by the compression suffix and sets the matching hints: ".csv" with      *)
(* content_type "text/plain" and ".json" with "application/json" when      *)
(* uncompressed; ".csv.gzip" and ".json.gzip" with content_encoding "gzip" *)
(* when compress is gzip; for parquet ".parquet" when the writer's parquet *)
(* compression is unset or "uncompressed", and ".<codec>.parquet" with     *)
(* content_encoding "<codec>" otherwise, always with content_type          *)
(* "application/x-parquet".                                                *)
(***************************************************************************)
\* the kwargs dict after the call has the value v under the key k
KwargsHas(k, v) == DictHas(ret.val.kwargs, k) /\ DictGet(ret.val.kwargs, k) = v

\* C24: the extensions and hints of csv, json and parquet, uncompressed and
\* with gzip
C24_ExtensionAndHints ==
  (op = "configure_s3_write_options") =>
    LET format      == args.polars_writer.format
        compression == args.polars_writer.parquet_compression
    IN /\ (format = "csv" /\ args.compress = "uncompressed") =>
            ret.val.ext = ".csv" /\ KwargsHas("content_type", "text/plain")
       /\ (format = "json" /\ args.compress = "uncompressed") =>
            ret.val.ext = ".json" /\ KwargsHas("content_type", "application/json")
       /\ (format = "csv" /\ args.compress = "gzip") =>
            /\ ret.val.ext = ".csv.gzip"
            /\ KwargsHas("content_type", "text/plain")
            /\ KwargsHas("content_encoding", "gzip")
       /\ (format = "json" /\ args.compress = "gzip") =>
            /\ ret.val.ext = ".json.gzip"
            /\ KwargsHas("content_type", "application/json")
            /\ KwargsHas("content_encoding", "gzip")
       /\ (format = "parquet") =>
            /\ KwargsHas("content_type", "application/x-parquet")
            /\ IF compression = <<>> \/ compression = <<"uncompressed">>
               THEN ret.val.ext = ".parquet"
               ELSE /\ ret.val.ext = "." \o compression[1] \o ".parquet"
                    /\ KwargsHas("content_encoding", compression[1])

(***************************************************************************)
(* C25: partition_df_for_s3(df, s3dir, part_keys), when df has all the     *)
(* part_keys, yields exactly one (sub-table, directory) pair per distinct  *)
(* combination of part_keys values in df; the sub-tables' row counts sum   *)
(* to df's row count, every row of df is in exactly one sub-table, no      *)
(* sub-table has a part_keys column, and each directory is s3dir joined    *)
(* with encode_hive_partition of part_keys zipped in order with the        *)
(* group's values, as a directory.                                         *)
(***************************************************************************)
\* the rows of df whose part_keys values are the combination combo
RowsWith(df, part_keys, combo) ==
  {r \in 1..height(df) :
     \A i \in 1..Len(part_keys) : get_column(df, part_keys[i]).values[r] = combo[i]}

\* the combinations of part_keys values that occur in df
Combinations(df, part_keys) ==
  {[i \in 1..Len(part_keys) |-> get_column(df, part_keys[i]).values[r]] :
     r \in 1..height(df)}

\* sub_df has the columns of df that are no part_keys, in df's order, and
\* in them the rows of df numbered rows, in df's order
IsSubTable(sub_df, df, part_keys, rows) ==
  LET kept == SelectSeq([j \in 1..Len(df) |-> j],
                        LAMBDA j : \A i \in 1..Len(part_keys) : df[j].name # part_keys[i])
  IN /\ Len(sub_df) = Len(kept)
     /\ \A c \in 1..Len(sub_df) :
          /\ sub_df[c].name = df[kept[c]].name
          /\ sub_df[c].dtype = df[kept[c]].dtype
          /\ Len(sub_df[c].values) = Cardinality(rows)
          /\ \E at \in [1..Cardinality(rows) -> rows] :
               /\ \A m, n \in 1..Cardinality(rows) : m < n => at[m] < at[n]
               /\ \A m \in 1..Cardinality(rows) :
                    sub_df[c].values[m] = df[kept[c]].values[at[m]]

RECURSIVE PairsRows(_)
\* the sum of the row counts of the sub-tables of the pairs
PairsRows(pairs) ==
  IF pairs = <<>> THEN 0 ELSE height(pairs[1][1]) + PairsRows(Tail(pairs))

\* C25: one pair per combination of part_keys values, with the rows of that
\* combination, without the part_keys columns, in the combination's directory
C25_OnePairPerCombination ==
  (op = "partition_df_for_s3" /\ ret.err = "") =>
    LET df     == args.df
        combos == Combinations(df, args.part_keys)
    IN /\ Len(ret.val) = Cardinality(combos)
       /\ PairsRows(ret.val) = height(df)
       /\ \E of \in [1..Len(ret.val) -> combos] :
            /\ \A m, n \in 1..Len(ret.val) : of[m] = of[n] => m = n
            /\ \A m \in 1..Len(ret.val) :
                 /\ IsSubTable(ret.val[m][1], df, args.part_keys,
                               RowsWith(df, args.part_keys, of[m]))
                 /\ ret.val[m][2]
                      = to_dir(joinpath(args.s3dir,
                          encode_hive_partition(
                            [i \in 1..Len(args.part_keys) |->
                               <<args.part_keys[i], of[m][i]>>])))
                 /\ ret.val[m][2].is_dir

\* the table with the tags a, b, a partitioned by the tag below s3://b/r/:
\* the pair of tag b, with row 2, comes before the pair of tag a, with the
\* rows 1 and 3
C25_Witness ==
  /\ op = "partition_df_for_s3"
  /\ args.part_keys = <<<<"t">>>>
  /\ args.s3dir = S3Path(<<"b">>, <<<<"r">>>>, TRUE)
  /\ ret.err = ""
  /\ Len(ret.val) = 2
  /\ ret.val[1] = <<<<Column(<<"i", "d">>, Int64, <<"2">>)>>,
                    S3Path(<<"b">>, <<<<"r">>, <<"t", "=", "b">>>>, TRUE)>>
  /\ ret.val[2] = <<<<Column(<<"i", "d">>, Int64, <<"1", "3">>)>>,
                    S3Path(<<"b">>, <<<<"r">>, <<"t", "=", "a">>>>, TRUE)>>

\* two partition keys: three combinations, three pairs
C25_WitnessTwoKeys ==
  /\ op = "partition_df_for_s3"
  /\ Len(args.part_keys) = 2
  /\ ret.err = ""
  /\ Len(ret.val) = 3

(***************************************************************************)
(* C26: whenever merge_schemas fails, the error names the conflicting      *)
(* column or Struct field and reports first the type seen earlier in input *)
(* order and second the type seen later, for conflicts at the top level    *)
(* and for conflicts found while the fields of two Structs are merged.     *)
(***************************************************************************)
RECURSIVE HasPath(_, _), TypeAt(_, _)
\* the mapping has the column path[1], with the field path[2] in it, with
\* the field path[3] in that, and so on
HasPath(mapping, path) ==
  /\ path # <<>>
  /\ DictHas(mapping, path[1])
  /\ \/ Len(path) = 1
     \/ /\ IsStruct(DictGet(mapping, path[1]))
        /\ HasPath(DictGet(mapping, path[1]).fields, Tail(path))

\* the type of the column or field at the end of the path
TypeAt(mapping, path) ==
  IF Len(path) = 1 THEN DictGet(mapping, path[1])
  ELSE TypeAt(DictGet(mapping, path[1]).fields, Tail(path))

\* the places a conflict can be at: a column, a field of the Struct column
\* s, a field of the Struct field n of s
ConflictPaths ==
  LET names == {"a", "b", "c", "n", "s"}
  IN {<<n>> : n \in names} \cup {<<"s", n>> : n \in names}
       \cup {<<"s", "n", n>> : n \in names}

\* the type the error reports for a type of the input: the type itself, or
\* for a Struct some Struct (the recorded one may be merged of several)
ReportedAs(reported, dtype) ==
  IF IsStruct(dtype) THEN IsStruct(reported) ELSE reported = dtype

\* C26: the error names a column or field that an earlier and a later schema
\* type differently, the earlier one's type first and the later one's second
C26_EarlierTypeFirst ==
  (op = "merge_schemas" /\ ret.err = "TypeError") =>
    \E k1, k2 \in 1..Len(args.schemas) : \E path \in ConflictPaths :
      /\ k1 < k2
      /\ path[Len(path)] = ret.val.col_name
      /\ HasPath(args.schemas[k1], path)
      /\ HasPath(args.schemas[k2], path)
      /\ ReportedAs(ret.val.first, TypeAt(args.schemas[k1], path))
      /\ ReportedAs(ret.val.second, TypeAt(args.schemas[k2], path))

(***************************************************************************)
(* C27: harmonize_schemas succeeds for every list of tables and every      *)
(* target schema, also when a table has a column whose name is not in the  *)
(* target schema: that table is returned with the column kept unchanged    *)
(* and with the target columns it lacks added as nulls.                    *)
(***************************************************************************)
\* C27: every call returns, each table extended with the null columns
C27_HarmonizeAlwaysSucceeds ==
  (op = "harmonize_schemas") =>
    /\ ret.err = ""
    /\ Len(ret.val) = Len(args.dfs)
    /\ \A k \in 1..Len(args.dfs) :
         ExtendedWithNulls(ret.val[k], args.dfs[k], args.schema)

(***************************************************************************)
(* C28: merge_schemas is independent of the order of its list, up to       *)
(* ordering: on a list of schemas and on any permutation of it, it either  *)
(* raises TypeError on both or succeeds on both with the same set of       *)
(* column names and, per column, the same type, Struct types being         *)
(* compared by their mapping of field name to type, recursively; only the  *)
(* order of columns and fields may differ.                                 *)
(***************************************************************************)
RECURSIVE SameMapping(_, _), SameType(_, _)
\* two mappings of names to types have the same names, each once, with the
\* same type
SameMapping(m1, m2) ==
  /\ {m1[i][1] : i \in 1..Len(m1)} = {m2[i][1] : i \in 1..Len(m2)}
  /\ Len(m1) = Len(m2)
  /\ \A i \in 1..Len(m1) : SameType(m1[i][2], DictGet(m2, m1[i][1]))

\* two types are the same, the fields of a Struct in any order
SameType(t1, t2) ==
  IF IsStruct(t1) /\ IsStruct(t2) THEN SameMapping(t1.fields, t2.fields)
  ELSE t1 = t2

\* C28: the permuted list fails when the given list failed, and otherwise
\* merges to the same columns with the same types
C28_OrderIndependent ==
  (op = "merge_schemas_permuted") =>
    \/ /\ args.given.err = "TypeError"
       /\ ret.err = "TypeError"
    \/ /\ args.given.err = ""
       /\ ret.err = ""
       /\ SameMapping(args.given.val, ret.val)

\* s{a, b} and s{b, c} merged in both orders: the fields b, c, a one way and
\* a, b, c the other
C28_Witness ==
  /\ op = "merge_schemas_permuted"
  /\ args.schemas = <<<<<<"s", StructAB>>>>, <<<<"s", StructBC>>>>>>
  /\ args.permuted = <<<<<<"s", StructBC>>>>, <<<<"s", StructAB>>>>>>
  /\ args.given.err = ""
  /\ ret.err = ""
  /\ args.given.val # ret.val

\* three schemas, the conflict between the first and the last: both orders
\* raise
C28_WitnessRaise ==
  /\ op = "merge_schemas_permuted"
  /\ Len(args.schemas) = 3
  /\ args.permuted = <<args.schemas[3], args.schemas[2], args.schemas[1]>>
  /\ merge_schemas(SubSeq(args.schemas, 1, 2), FALSE).err = ""
  /\ merge_schemas(SubSeq(args.schemas, 2, 3), FALSE).err = ""
  /\ args.given.err = "TypeError"
  /\ ret.err = "TypeError"

(***************************************************************************)
(* C29: every partition list_partitions returns is a folder that holds an  *)
(* object: its part_uri, rebuilt from root_uri and the decoded data, is    *)
(* the folder of at least one listed object, whatever the objects under    *)
(* the root are, also when a partition key is in two segments of a path.   *)
(***************************************************************************)
\* C29: the part_uri of each returned partition is the folder of an object
C29_PartUriHoldsAnObject ==
  (op = "list_partitions" /\ ret.err = "") =>
    \A i \in 1..Len(ret.val) :
      \E o \in args.objects : S3Partition_part_uri(ret.val[i]) = FolderOf(o)

(***************************************************************************)
(* C30: merge_dataframes, and get_merged_schema with raise_on_conflict     *)
(* true, take a Struct column whose field sets differ between two tables   *)
(* as a conflict and raise TypeError; unlike merge_schemas they never      *)
(* merge the two Structs field by field, so tables whose schemas           *)
(* merge_schemas accepts, such as c{a, b} and c{b, c}, are rejected.       *)
(***************************************************************************)
\* two of the tables have a Struct column of one name with different sets
\* of field names
StructFieldsDiffer(dfs) ==
  \E k1, k2 \in 1..Len(dfs) :
    \E col_name \in this_schema(dfs[k1]) \cap this_schema(dfs[k2]) :
      /\ IsStruct(TypeIn(dfs[k1], col_name))
      /\ IsStruct(TypeIn(dfs[k2], col_name))
      /\ FieldNames(TypeIn(dfs[k1], col_name)) # FieldNames(TypeIn(dfs[k2], col_name))

\* the call is one that raises on conflicts
RaisesOnConflict ==
  IF op = "get_merged_schema" THEN args.raise_on_conflict ELSE op = "merge_dataframes"

C30_WitnessSchema ==
  /\ op = "get_merged_schema"
  /\ args.raise_on_conflict
  /\ Len(args.dfs) = 2
  /\ schema_of(args.dfs[1]) = <<<<"b", String>>, <<"c", StructAB>>>>
  /\ schema_of(args.dfs[2]) = <<<<"c", StructBC>>, <<"a", Int64>>>>
  /\ ret.err = "TypeError"

====
